---- MODULE Spec2Model ----
(***************************************************************************)
(* AsyncSqliteManager: the overflow-tolerant buffer (CloggableList) and    *)
(* the history coordinator (HistoryManager) that fills and flushes it.     *)
(*                                                                         *)
(* The specifications share the buffer operators:                          *)
(*   SpecBuffer  a CloggableList on its own, driven through its methods;   *)
(*   Spec        a HistoryManager with concurrently running asyncio tasks; *)
(*   SpecManager the Manager's connect/shutdown life cycle around it.      *)
(***************************************************************************)
EXTENDS Integers, Sequences, FiniteSets, TLC

(* ------------------------------ bounds -------------------------------- *)
\* largest capacity / tolerance argument tried
MaxCap == 2
MaxTol == 1
\* longest standalone buffer explored (only unlimited tolerance gets there)
MaxLen == 4
\* longest iterable passed to extend, most selectors passed to extract
MaxExtend == 2
MaxSelectors == 2
\* largest index a selector of extract names
MaxIndex == 2
\* jobs (buffer items) created in one behaviour of Spec
MaxJobs == 4
\* concurrently running asyncio tasks
NumTasks == 2
\* database connections open when shutdown starts
MaxDbs == 1
\* dumps handed to one write_many call, and the files they can name
MaxDumps == 3
NumFiles == 2
\* the largest int in a payload, and the longest key path
MaxInt == 2
MaxKeyLen == 2
\* the payloads of one write_batch call
MaxBatch == 2
\* the writer calls on one CSV table: an overwrite and the appends after it
MaxCalls == 3
\* the PathConnection objects handed to one DbPathDict
MaxPcs == 3
\* the tasks that call one Manager, the connections aiosqlite opens for them
\* and the Lock objects the Manager creates
MaxCallers == 2
MaxConns == 2
MaxLocks == 2
\* the Transaction objects of one path, the statements executed through
\* each, and the connections opened for the path
MaxTxns == 2
MaxStmts == 2
MaxGens == 2

(* --------------------------- Python values ---------------------------- *)
\* Optional[int]: the integers, and None (not an integer of the domain)
None == -2
\* arguments offered to a capacity parameter / a tolerance parameter
CapArgs == (-1 .. MaxCap) \cup {None}
TolArgs == (-1 .. MaxTol) \cup {None}
\* bool is a subclass of int: True == 1, False == 0
BoolAsInt(b) == IF b THEN 1 ELSE 0

(* ------------------------ cloggable_list.py --------------------------- *)
\* convertible_to_non_neg_int(value) -> (bool, int)
convertible_to_non_neg_int(value) ==
    IF value = None THEN <<FALSE, 0>>          \* int(None): TypeError
    ELSE IF value < 0 THEN <<FALSE, 0>>
    ELSE <<TRUE, value>>

\* validate_non_neg_int: unpacks the pair as (ivalue, can_convert), raises
\* when can_convert is falsy, returns ivalue.  err = TRUE is ValueError.
validate_non_neg_int(value) ==
    LET r == convertible_to_non_neg_int(value)
        ivalue == r[1]
        can_convert == r[2]
    IN  IF can_convert = 0 THEN [err |-> TRUE, v |-> 0]
        ELSE [err |-> FALSE, v |-> BoolAsInt(ivalue)]

\* validate_none_or_non_neg_int: None passes through, otherwise as above
validate_none_or_non_neg_int(value) ==
    IF value = None THEN [err |-> FALSE, v |-> None]
    ELSE LET r == convertible_to_non_neg_int(value)
             ivalue == r[1]
             can_convert == r[2]
         IN  IF can_convert = 0 THEN [err |-> TRUE, v |-> 0]
             ELSE [err |-> FALSE, v |-> BoolAsInt(ivalue)]

\* the value "no list" (a HistoryManager whose _history is None)
NoList == [none |-> TRUE, items |-> <<>>, max_length |-> 0, tolerance |-> 0]

\* CloggableList.__init__: both property setters validate; err is ValueError
CloggableList(max_length, tolerance) ==
    LET m == validate_non_neg_int(max_length)
        t == validate_none_or_non_neg_int(tolerance)
    IN  IF m.err \/ t.err THEN [err |-> TRUE, list |-> NoList]
        ELSE [err |-> FALSE,
              list |-> [none |-> FALSE, items |-> <<>>,
                        max_length |-> m.v, tolerance |-> t.v]]

\* the full property: len(self) >= self.max_length
full(b) == Len(b.items) >= b.max_length

\* tolerable(): unlimited tolerance, or len <= max_length + tolerance
tolerable(b) ==
    IF b.tolerance = None THEN TRUE
    ELSE Len(b.items) <= b.max_length + b.tolerance

intolerable(b) == ~tolerable(b)

\* list.append under return_full, without the overflow check
return_full_append(b, x) ==
    LET nb == [b EXCEPT !.items = Append(b.items, x)]
    IN  [raised |-> FALSE, list |-> nb, ret |-> full(nb)]

\* append(object): proceed_if_tolerable(return_full(list.append)).
\* raised = OverflowError; ret = TRUE is a Full() instance, FALSE is None.
append(b, x) ==
    IF intolerable(b) THEN [raised |-> TRUE, list |-> b, ret |-> FALSE]
    ELSE return_full_append(b, x)

\* a flush that returns the items newest first
flush_newest_first(b) ==
    [list |-> [b EXCEPT !.items = <<>>],
     out |-> [k \in 1 .. Len(b.items) |-> b.items[Len(b.items) + 1 - k]]]

\* a flush that returns the items without clearing the list
flush_without_clear(b) == [list |-> b, out |-> b.items]

\* flush(): output = tuple(self); self.clear(); return output
flush(b) == [list |-> [b EXCEPT !.items = <<>>], out |-> b.items]

\* list.extend under return_full, without the overflow check
return_full_extend(b, xs) ==
    LET nb == [b EXCEPT !.items = b.items \o xs]
    IN  [raised |-> FALSE, list |-> nb, ret |-> full(nb)]

\* extend(iterable): proceed_if_tolerable(return_full(list.extend))
extend(b, xs) ==
    IF intolerable(b) THEN [raised |-> TRUE, list |-> b, ret |-> FALSE]
    ELSE return_full_extend(b, xs)

(* --------------------------- list_utils.py ---------------------------- *)
\* a selector of extract: the int i, Index(i), is [iv |-> FALSE, start |-> i, end |-> i],
\* Interval(a, b) is [iv |-> TRUE, start |-> a, end |-> b]
Index(i) == [iv |-> FALSE, start |-> i, end |-> i]
Interval(a, b) == [iv |-> TRUE, start |-> a, end |-> b]

\* range(item.start, item.end + 1) as a list; an int contributes itself
Expand(sel) ==
    IF sel.end < sel.start THEN <<>>
    ELSE [k \in 1 .. (sel.end - sel.start + 1) |-> sel.start + k - 1]

\* list(dict.fromkeys(result)): first occurrences, in order
RECURSIVE Dedup(_)
Dedup(q) ==
    IF q = <<>> THEN <<>>
    ELSE LET r == Dedup(SubSeq(q, 1, Len(q) - 1))
             x == q[Len(q)]
         IN  IF \E i \in 1 .. Len(r) : r[i] = x THEN r ELSE Append(r, x)

\* Interval.flatten(*int_or_intervals)
RECURSIVE Concat(_)
Concat(sels) ==
    IF sels = <<>> THEN <<>>
    ELSE Expand(Head(sels)) \o Concat(Tail(sels))

flatten(sels) == Dedup(Concat(sels))

\* sorted(indices) of a set of ints
RECURSIVE Sorted(_)
Sorted(S) ==
    IF S = {} THEN <<>>
    ELSE LET m == CHOOSE x \in S : \A y \in S : x <= y
         IN  <<m>> \o Sorted(S \ {m})

\* the items of q at the positions not in indices (0-based), in order
RECURSIVE Without(_, _, _)
Without(q, indices, at) ==
    IF q = <<>> THEN <<>>
    ELSE (IF at \in indices THEN <<>> ELSE <<Head(q)>>)
            \o Without(Tail(q), indices, at + 1)

\* an extract that skips the indices that are out of range
extract_skipping_bad_indices(b, sels) ==
    LET f == flatten(sels)
        indices == {i \in {f[k] : k \in 1 .. Len(f)} : i >= 0 /\ i < Len(b.items)}
        order == Sorted(indices)
    IN  [raised |-> FALSE,
         list |-> [b EXCEPT !.items = Without(b.items, indices, 0)],
         out |-> [k \in 1 .. Len(order) |-> b.items[order[k] + 1]]]

\* extract(*args): raised = IndexError
extract(b, sels) ==
    LET f == flatten(sels)
        indices == {f[i] : i \in 1 .. Len(f)}
        order == Sorted(indices)
    IN  IF \E i \in indices : i < 0 \/ i >= Len(b.items)
        THEN [raised |-> TRUE, list |-> b, out |-> <<>>]
        ELSE [raised |-> FALSE,
              list |-> [b EXCEPT !.items = Without(b.items, indices, 0)],
              out |-> [k \in 1 .. Len(order) |-> b.items[order[k] + 1]]]

(* ----------------------------- state ---------------------------------- *)
Items == 1 .. 2

\* the iterables offered to extend
Iterables == UNION {[1 .. n -> Items] : n \in 0 .. MaxExtend}

\* the selectors offered to extract: indices from -1, the intervals from 0
\* that hold an index, and those with end = start - 1, which hold none
Selectors ==
    {Index(i) : i \in -1 .. MaxIndex}
        \cup {sel \in [iv : {TRUE}, start : 0 .. MaxIndex, end : 0 .. MaxIndex] :
                    sel.start <= sel.end + 1}

SelectorLists == UNION {[1 .. n -> Selectors] : n \in 0 .. MaxSelectors}

\* a method call on the buffer: pre is the content before it, arg/xs/sel its
\* argument, raised whether it raised, ret whether it returned Full, out the
\* tuple it returned
NoCall == [op |-> "none", pre |-> <<>>, arg |-> 0, xs |-> <<>>, sel |-> <<>>,
           raised |-> FALSE, ret |-> FALSE, out |-> <<>>]

VARIABLES
    cl,        \* SpecBuffer: the CloggableList under test (NoList if the constructor raised)
    cfg,       \* SpecBuffer: the configured [N, T], whether the constructor raised, and
               \* plain: filled by append only and not reconfigured since construction
    last       \* SpecBuffer: the last method call and what it did

VARIABLES
    hmErr,              \* Spec: HistoryManager.__init__ raised ValueError (no manager exists)
    history,            \* Spec: HistoryManager._history, a CloggableList or NoList
    history_length,     \* Spec: HistoryManager._history_length
    history_tolerance,  \* Spec: HistoryManager._history_tolerance
    generator,          \* Spec: a history_dump_generator is registered
    lock,               \* Spec: _history_lock: the task holding it, 0 when unlocked
    waiters,            \* Spec: _history_lock's FIFO of tasks suspended in acquire()
    task,               \* Spec: per task, the call it is suspended in
    done,               \* Spec: the call that completed last, and what it did
    sent,               \* Spec: per job, how many times it was handed to write_many
    nextJob,            \* Spec: identity of the next object created
    dbs                 \* Spec: the database paths registered with the Manager

VARIABLES
    wm_dumps,   \* SpecDispatch: the AsyncHistoryDump objects passed to write_many
    wm_state,   \* SpecDispatch: where the write_many call is
    wm_calls    \* SpecDispatch: the write_batch calls it made, and how far each is

VARIABLES
    mg,         \* SpecMerge: the last call of a function of merge.py, and its result
    fs,         \* SpecWriter, SpecFiles: per path, what the file holds
    wcall,      \* SpecWriter: the last writer call, and what it did
    wm_io,      \* SpecFiles: per write_batch call, where its file I/O is
    ctor        \* SpecConstruct: the last AsyncHistoryDump(...) call, and what it did

VARIABLES
    reg,        \* SpecRegistry: a DbPathDict, and the last call on it
    mgr,        \* SpecConnect: a Manager's connections and locks, and its callers
    tx,         \* SpecTransaction: a database, and the Transaction objects on it
    tbl         \* SpecTable: the mapping rows written to a CSV file so far

bufvars == <<cl, cfg, last>>
dbvars == <<reg, mgr, tx, tbl>>
wmvars == <<wm_dumps, wm_state, wm_calls>>
iovars == <<mg, fs, wcall, wm_io, ctor>>
hmvars == <<hmErr, history, history_length, history_tolerance, generator, lock,
            waiters, task, done, sent, nextJob, dbs>>
vars == <<cl, cfg, last, hmErr, history, history_length, history_tolerance,
          generator, lock, waiters, task, done, sent, nextJob, dbs,
          wm_dumps, wm_state, wm_calls, mg, fs, wcall, wm_io, ctor,
          reg, mgr, tx, tbl>>

Tasks == 1 .. NumTasks
Jobs == 1 .. MaxJobs

\* a call: op is the method, st where it is ("idle", "waiting" for the lock,
\* "closing" connections, "dispatching" in write_many) or how it ended
\* ("noop", "returned", "raised").  gen0/on0: a generator was registered /
\* the capacity was enabled when it was called; job: the dump it created;
\* ins: it inserted the dump; sig: the insert returned Full; had: it called
\* write_many; pre: the buffer right after its insert (append) or when it
\* flushed; dumps: what it handed to write_many; derr: write_many raised;
\* ext: another caller put an
\* item into the buffer while it was suspended in write_many; left: paths
\* still to close; t: the task that made the call (in done).
NoTask == [op |-> "none", st |-> "idle", gen0 |-> FALSE, on0 |-> FALSE,
           job |-> 0, ins |-> FALSE, sig |-> FALSE, had |-> FALSE,
           pre |-> <<>>, dumps |-> <<>>, derr |-> FALSE, ext |-> FALSE,
           left |-> {}, t |-> 0]

\* no write_many call is modelled
WmIdle == wm_dumps = <<>> /\ wm_state = "idle" /\ wm_calls = <<>>

\* SpecBuffer leaves the manager's variables alone, Spec the buffer's
HmIdle ==
    /\ hmErr = FALSE /\ history = NoList /\ history_length = None
    /\ history_tolerance = None /\ generator = FALSE /\ lock = 0
    /\ waiters = <<>> /\ task = [t \in Tasks |-> NoTask] /\ done = NoTask
    /\ sent = [j \in Jobs |-> 0] /\ nextJob = 1 /\ dbs = {}

BufIdle ==
    /\ cl = NoList /\ last = NoCall
    /\ cfg = [N |-> None, T |-> None, err |-> FALSE, plain |-> TRUE]

\* a Python value (OutputData): t is its type, n the number of an int, s the
\* text of a str, items the elements of a list, tuple or set in iteration
\* order, or the (key, value) pairs of a dict in insertion order
Value(t, n, s, items) == [t |-> t, n |-> n, s |-> s, items |-> items]
PyNone == Value("None", 0, "", <<>>)
PyInt(n) == Value("int", n, "", <<>>)
PyStr(s) == Value("str", 0, s, <<>>)
PyList(items) == Value("list", 0, "", items)
PyTuple(items) == Value("tuple", 0, "", items)
PySet(items) == Value("set", 0, "", items)
PyDict(pairs) == Value("dict", 0, "", pairs)
Pair(k, v) == [k |-> k, v |-> v]

\* what a path holds: no file, a file of no characters, text that is no JSON
\* document, the JSON text of a document, the lines of a text file, the rows
\* of a CSV file
Missing == [kind |-> "missing", doc |-> PyNone]
Blank == [kind |-> "blank", doc |-> PyNone]
Garbage == [kind |-> "garbage", doc |-> PyNone]

\* the result of a call: the exception it raised ("" if none) and its value
Ok(v) == [exc |-> "", v |-> v]
Raise(e) == [exc |-> e, v |-> PyNone]

\* no call of merge.py, of a writer or of the constructor is modelled
NoMerge == [op |-> "none", existing |-> PyNone, data |-> PyNone, mode |-> "",
            key |-> <<>>, create |-> FALSE, out |-> Ok(PyNone)]
NoWrite == [op |-> "none", fmt |-> "", pre |-> Missing, data_list |-> <<>>,
            mode |-> "", key |-> [none |-> TRUE, parts |-> <<>>],
            strict_keys |-> FALSE, exc |-> "", opened |-> 0]
NoCtor == [op |-> "none", dir0 |-> FALSE, dir |-> FALSE, mode |-> "",
           filetype |-> "", ext |-> "", key |-> [none |-> TRUE, parts |-> <<>>],
           exc |-> ""]

\* a DbPathDict, a Manager, a database and a CSV table nothing was done with
NoReg == [op |-> "none", exc |-> "", d |-> <<>>, kept |-> TRUE]
NoMgr == [op |-> "none"]
NoTx == [op |-> "none"]
NoTbl == [op |-> "none", rows |-> <<>>, calls |-> 0, exc |-> ""]
DbIdle == reg = NoReg /\ mgr = NoMgr /\ tx = NoTx /\ tbl = NoTbl

IoIdle ==
    /\ mg = NoMerge /\ wcall = NoWrite /\ wm_io = <<>> /\ ctor = NoCtor
    /\ fs = [f \in 1 .. NumFiles |-> Missing]


\* cl = CloggableList(N, T) for any arguments a caller can pass
InitBuffer ==
    /\ \E N \in CapArgs, T \in TolArgs :
         LET c == CloggableList(N, T)
         IN  /\ cl = c.list
             /\ cfg = [N |-> N, T |-> T, err |-> c.err, plain |-> TRUE]
             /\ last = NoCall
    /\ HmIdle
    /\ WmIdle
    /\ IoIdle
    /\ DbIdle

\* cl.append(x)
BufAppend(x) ==
    /\ ~cl.none
    /\ Len(cl.items) < MaxLen
    /\ LET r == append(cl, x)
       IN  /\ cl' = r.list
           /\ last' = [NoCall EXCEPT !.op = "append", !.pre = cl.items, !.arg = x,
                                      !.raised = r.raised, !.ret = r.ret]
    /\ UNCHANGED <<cfg, hmvars, wmvars, iovars, dbvars>>

\* cl.extend(xs)
BufExtend(xs) ==
    /\ ~cl.none
    /\ Len(cl.items) + Len(xs) <= MaxLen
    /\ LET r == extend(cl, xs)
       IN  /\ cl' = r.list
           /\ cfg' = IF r.raised THEN cfg ELSE [cfg EXCEPT !.plain = FALSE]
           /\ last' = [NoCall EXCEPT !.op = "extend", !.pre = cl.items, !.xs = xs,
                                      !.raised = r.raised, !.ret = r.ret]
    /\ UNCHANGED <<hmvars, wmvars, iovars, dbvars>>

\* cl.extract(*sels)
BufExtract(sels) ==
    /\ ~cl.none
    /\ LET r == extract(cl, sels)
       IN  /\ cl' = r.list
           /\ last' = [NoCall EXCEPT !.op = "extract", !.pre = cl.items, !.sel = sels,
                                      !.raised = r.raised, !.out = r.out]
    /\ UNCHANGED <<cfg, hmvars, wmvars, iovars, dbvars>>

\* cl.flush()
BufFlush ==
    /\ ~cl.none
    /\ LET r == flush(cl)
       IN  /\ cl' = r.list
           /\ last' = [NoCall EXCEPT !.op = "flush", !.pre = cl.items, !.out = r.out]
    /\ UNCHANGED <<cfg, hmvars, wmvars, iovars, dbvars>>

\* cl.max_length = value (the property setter; ValueError leaves it as it was)
BufSetMaxLength(value) ==
    /\ ~cl.none
    /\ LET r == validate_non_neg_int(value)
       IN  /\ cl' = IF r.err THEN cl ELSE [cl EXCEPT !.max_length = r.v]
           /\ cfg' = IF r.err THEN cfg ELSE [cfg EXCEPT !.N = value, !.plain = FALSE]
           /\ last' = [NoCall EXCEPT !.op = "set_max_length", !.pre = cl.items,
                                      !.arg = value, !.raised = r.err]
    /\ UNCHANGED <<hmvars, wmvars, iovars, dbvars>>

\* cl.tolerance = value
BufSetTolerance(value) ==
    /\ ~cl.none
    /\ LET r == validate_none_or_non_neg_int(value)
       IN  /\ cl' = IF r.err THEN cl ELSE [cl EXCEPT !.tolerance = r.v]
           /\ cfg' = IF r.err THEN cfg ELSE [cfg EXCEPT !.T = value, !.plain = FALSE]
           /\ last' = [NoCall EXCEPT !.op = "set_tolerance", !.pre = cl.items,
                                      !.arg = value, !.raised = r.err]
    /\ UNCHANGED <<hmvars, wmvars, iovars, dbvars>>

NextBuffer ==
    \/ \E x \in Items : BufAppend(x)
    \/ \E xs \in Iterables : BufExtend(xs)
    \/ BufFlush
    \/ \E v \in CapArgs : BufSetMaxLength(v)
    \/ \E v \in TolArgs : BufSetTolerance(v)

SpecBuffer == InitBuffer /\ [][NextBuffer]_vars

\* a CloggableList that is filled by append and emptied by extract and flush
NextExtract ==
    \/ \E x \in Items : BufAppend(x)
    \/ BufFlush
    \/ \E sels \in SelectorLists : BufExtract(sels)

SpecExtract == InitBuffer /\ [][NextExtract]_vars

(* --------------------------- manager/history.py ----------------------- *)
Paths == 1 .. MaxDbs

\* HistoryManager._validate_none_or_non_neg_int; err is ValueError
HM_validate_none_or_non_neg_int(value) ==
    [err |-> value # None /\ value < 0, v |-> value]

\* HistoryManager.__init__(history_length, history_tolerance, generator)
HistoryManager(N, T, g) ==
    LET n == HM_validate_none_or_non_neg_int(N)
        t == HM_validate_none_or_non_neg_int(T)
        c == CloggableList(N, T)
    IN  IF n.err \/ t.err THEN [err |-> TRUE, list |-> NoList]
        ELSE IF N = None THEN [err |-> FALSE, list |-> NoList]
        ELSE [err |-> c.err, list |-> c.list]

\* bool(self.history): None is falsy, and so is a list that holds nothing
Truthy(h) == ~h.none /\ Len(h.items) > 0

\* an early return that looks at the buffer only, not at the generator
ReturnsEarlyWithoutHistory == ~Truthy(history)

\* append's first line: not self.history or not self.history_dump_generator
AppendReturnsEarly == ~Truthy(history) \/ ~generator

\* AsyncHistoryDump.write_many(dumps) up to its first suspension (the buffered
\* items are AsyncHistoryDump instances):
\*   "returned"     no group: gather() of nothing is complete at once
\*   "dispatching"  suspended in gather(*tasks)
write_many(dumps) == IF dumps = <<>> THEN "returned" ELSE "dispatching"

\* a flush_to_file that drains only a buffer that is full
flush_to_file_when_full(h) ==
    IF h.none \/ ~full(h)
    THEN [list |-> h, had |-> FALSE, dumps |-> <<>>, st |-> "returned"]
    ELSE [list |-> [h EXCEPT !.items = <<>>], had |-> TRUE, dumps |-> h.items,
          st |-> write_many(h.items)]

\* flush_to_file() up to its first suspension
flush_to_file(h) ==
    IF h.none
    THEN [list |-> h, had |-> FALSE, dumps |-> <<>>, st |-> "returned"]
    ELSE LET f == flush(h)
         IN  [list |-> f.list, had |-> TRUE, dumps |-> f.out,
              st |-> write_many(f.out)]

\* an append body that inserts and ignores the Full signal of the insert
append_locked_ignoring_full(h, g, job) ==
    LET none == [list |-> h, built |-> FALSE, ins |-> FALSE, sig |-> FALSE,
                 had |-> FALSE, pre |-> <<>>, dumps |-> <<>>, st |-> "raised"]
    IN  IF ~g THEN none
        ELSE IF h.none THEN [none EXCEPT !.built = TRUE]
        ELSE LET r == append(h, job)
             IN  IF r.raised THEN [none EXCEPT !.built = TRUE]
                 ELSE [list |-> r.list, built |-> TRUE, ins |-> TRUE,
                       sig |-> r.ret, had |-> FALSE, pre |-> r.list.items,
                       dumps |-> <<>>, st |-> "returned"]

\* the body of append under the lock, up to its first suspension: create the
\* dump, insert it, flush when the insert returned Full.  built: a dump was
\* created; st "raised" is AttributeError (generator or history gone while
\* waiting for the lock) or OverflowError.
append_locked(h, g, job) ==
    LET none == [list |-> h, built |-> FALSE, ins |-> FALSE, sig |-> FALSE,
                 had |-> FALSE, pre |-> <<>>, dumps |-> <<>>, st |-> "raised"]
    IN  IF ~g THEN none
        ELSE IF h.none THEN [none EXCEPT !.built = TRUE]
        ELSE LET r == append(h, job)
             IN  IF r.raised THEN [none EXCEPT !.built = TRUE]
                 ELSE IF r.ret
                 THEN LET f == flush_to_file(r.list)
                      IN  [list |-> f.list, built |-> TRUE, ins |-> TRUE,
                           sig |-> TRUE, had |-> f.had, pre |-> r.list.items,
                           dumps |-> f.dumps, st |-> f.st]
                 ELSE [list |-> r.list, built |-> TRUE, ins |-> TRUE,
                       sig |-> FALSE, had |-> FALSE, pre |-> r.list.items,
                       dumps |-> <<>>, st |-> "returned"]

\* an append that does not wait for the lock
lock_never_waited_for == TRUE

\* asyncio.Lock.acquire() takes the lock at once when it is unlocked and no
\* task is queued for it
lock_is_free == lock = 0 /\ waiters = <<>>

\* a lock that an exception inside the block does not release
lock_kept_on_exception(t, st) == IF st \in {"dispatching", "raised"} THEN t ELSE 0

\* the lock after the "async with" block of task t ran up to state st: still
\* held while the flush is suspended, released on return and on exception
lock_after(t, st) == IF st = "dispatching" THEN t ELSE 0

\* per job, one more hand-over for each occurrence in dumps
Handed(dumps) ==
    [j \in Jobs |->
        LET n == sent[j] + Cardinality({i \in 1 .. Len(dumps) : dumps[i] = j})
        IN  IF n > 2 THEN 2 ELSE n]

Ended == {"noop", "returned", "raised"}
InCall(t) == task[t].st # "idle"
NumWaiting == Cardinality({t \in Tasks : task[t].st = "waiting"})

\* task t's call is now as rec says: suspended, or completed.  done describes
\* the call a step completed, and is NoTask after a step that completed none.
Settle(t, rec) ==
    IF rec.st \in Ended
    THEN /\ task' = [task EXCEPT ![t] = NoTask]
         /\ done' = [rec EXCEPT !.t = t]
    ELSE /\ task' = [task EXCEPT ![t] = rec]
         /\ done' = NoTask

\* HistoryManager(N, T, generator) for any arguments a caller can pass
Init ==
    /\ \E N \in CapArgs, T \in TolArgs, g \in BOOLEAN :
         LET m == HistoryManager(N, T, g)
         IN  /\ hmErr = m.err
             /\ history = m.list
             /\ history_length = IF m.err THEN None ELSE N
             /\ history_tolerance = IF m.err THEN None ELSE T
             /\ generator = (g /\ ~m.err)
    /\ lock = 0 /\ waiters = <<>>
    /\ task = [t \in Tasks |-> NoTask] /\ done = NoTask
    /\ sent = [j \in Jobs |-> 0]
    /\ nextJob = 1 /\ dbs = {}
    /\ BufIdle
    /\ WmIdle
    /\ IoIdle
    /\ DbIdle

\* task t runs the locked body of append
RunAppend(t, rec) ==
    LET r == append_locked(history, generator, nextJob)
    IN  /\ history' = r.list
        /\ nextJob' = IF r.built THEN nextJob + 1 ELSE nextJob
        /\ sent' = IF r.had THEN Handed(r.dumps) ELSE sent
        /\ lock' = lock_after(t, r.st)
        /\ Settle(t, [rec EXCEPT !.st = r.st,
                                 !.job = IF r.built THEN nextJob ELSE 0,
                                 !.ins = r.ins, !.sig = r.sig, !.had = r.had,
                                 !.pre = r.pre, !.dumps = r.dumps])

\* await hm.append(item), up to the first suspension
AppendCall(t) ==
    /\ ~hmErr /\ ~InCall(t)
    /\ LET rec == [NoTask EXCEPT !.op = "append", !.gen0 = generator,
                                 !.on0 = ~history.none]
       IN  IF AppendReturnsEarly
           THEN /\ Settle(t, [rec EXCEPT !.st = "noop"])
                /\ UNCHANGED <<history, lock, waiters, sent, nextJob>>
           ELSE /\ nextJob + NumWaiting <= MaxJobs
                /\ IF lock_is_free
                   THEN /\ RunAppend(t, rec)
                        /\ UNCHANGED waiters
                   ELSE /\ waiters' = Append(waiters, t)
                        /\ Settle(t, [rec EXCEPT !.st = "waiting"])
                        /\ UNCHANGED <<history, lock, sent, nextJob>>
    /\ UNCHANGED <<hmErr, history_length, history_tolerance, generator, dbs,
                   bufvars, wmvars, iovars, dbvars>>

\* the lock was released and t is the first waiter: t acquires it and goes on
AppendResume(t) ==
    /\ task[t].st = "waiting"
    /\ lock = 0 /\ waiters # <<>> /\ Head(waiters) = t
    /\ waiters' = Tail(waiters)
    /\ RunAppend(t, task[t])
    /\ UNCHANGED <<hmErr, history_length, history_tolerance, generator, dbs,
                   bufvars, wmvars, iovars, dbvars>>

\* task t runs flush_to_file as (part of) call rec
RunFlush(t, rec) ==
    LET f == flush_to_file(history)
    IN  /\ history' = f.list
        /\ sent' = IF f.had THEN Handed(f.dumps) ELSE sent
        /\ Settle(t, [rec EXCEPT !.st = f.st, !.had = f.had,
                                 !.pre = history.items, !.dumps = f.dumps])

\* await hm.flush_to_file() (ManagerBase.flush_history_to_file)
FlushCall(t) ==
    /\ ~hmErr /\ ~InCall(t)
    /\ RunFlush(t, [NoTask EXCEPT !.op = "flush", !.on0 = ~history.none])
    /\ UNCHANGED <<hmErr, history_length, history_tolerance, generator, lock,
                   waiters, nextJob, dbs, bufvars, wmvars, iovars, dbvars>>

\* how a call ends whose write_many completed (ok) or raised: neither
\* flush_to_file nor append catches the exception
after_dispatch(ok) == IF ok THEN "returned" ELSE "raised"

\* write_many's gather completes (ok) or one of the writers raised (~ok)
DispatchDone(t, ok) ==
    /\ task[t].st = "dispatching"
    /\ Settle(t, [task[t] EXCEPT !.st = after_dispatch(ok), !.derr = ~ok])
    /\ lock' = IF task[t].op = "append" THEN lock_after(t, after_dispatch(ok))
               ELSE lock
    /\ UNCHANGED <<hmErr, history, history_length, history_tolerance, generator,
                   waiters, sent, nextJob, dbs, bufvars, wmvars, iovars, dbvars>>

\* Manager.connect(db_path) registers a connection for a path not yet known
Connect(p) ==
    /\ ~hmErr /\ p \notin dbs
    /\ dbs' = dbs \cup {p}
    /\ UNCHANGED <<hmErr, history, history_length, history_tolerance, generator,
                   lock, waiters, task, sent, nextJob, bufvars, wmvars, iovars, dbvars>>
    /\ done' = NoTask

\* the next path of the snapshot `left` that disconnect_all closes
NextPath(left) == CHOOSE p \in left : \A q \in left : p <= q

\* await manager.shutdown(): disconnect_all() iterates over a snapshot of the
\* registered paths; with none registered the flush follows at once
ShutdownCall(t) ==
    /\ ~hmErr /\ ~InCall(t)
    /\ LET rec == [NoTask EXCEPT !.op = "shutdown", !.on0 = ~history.none,
                                 !.left = dbs]
       IN  IF dbs = {}
           THEN RunFlush(t, rec)
           ELSE /\ Settle(t, [rec EXCEPT !.st = "closing"])
                /\ UNCHANGED <<history, sent>>
    /\ UNCHANGED <<hmErr, history_length, history_tolerance, generator, lock,
                   waiters, nextJob, dbs, bufvars, wmvars, iovars, dbvars>>

\* one await self.close(db_path) of disconnect_all returns (ok) or raises;
\* after the last one flush_history_to_file() runs
CloseOne(t, ok) ==
    /\ task[t].st = "closing"
    /\ LET p == NextPath(task[t].left)
           rec == [task[t] EXCEPT !.left = task[t].left \ {p}]
       IN  /\ ok \/ p \in dbs
           /\ IF ~ok
              THEN /\ Settle(t, [task[t] EXCEPT !.st = "raised"])
                   /\ UNCHANGED <<history, sent, dbs>>
              ELSE /\ dbs' = dbs \ {p}
                   /\ IF rec.left = {}
                      THEN RunFlush(t, rec)
                      ELSE /\ Settle(t, rec)
                           /\ UNCHANGED <<history, sent>>
    /\ UNCHANGED <<hmErr, history_length, history_tolerance, generator, lock,
                   waiters, nextJob, bufvars, wmvars, iovars, dbvars>>

\* hm.history.append(x) by a holder of the public history property (as the
\* tests do).  An OverflowError changes nothing.
DirectInsert ==
    /\ ~hmErr /\ ~history.none
    /\ nextJob + NumWaiting <= MaxJobs
    /\ LET r == append(history, nextJob)
       IN  /\ ~r.raised
           /\ history' = r.list
    /\ nextJob' = nextJob + 1
    /\ task' = [t \in Tasks |->
                  IF task[t].st = "dispatching"
                  THEN [task[t] EXCEPT !.ext = TRUE] ELSE task[t]]
    /\ UNCHANGED <<hmErr, history_length, history_tolerance, generator, lock,
                   waiters, sent, dbs, bufvars, wmvars, iovars, dbvars>>
    /\ done' = NoTask

\* a history_length setter that records None and keeps the buffer
set_history_length_keeping_buffer(value) ==
    LET v == HM_validate_none_or_non_neg_int(value)
        c == CloggableList(value, history_tolerance)
        m == validate_non_neg_int(value)
    IN  IF v.err
        THEN [err |-> TRUE, list |-> history, length |-> history_length]
        ELSE IF value = None
        THEN [err |-> FALSE, list |-> history, length |-> None]
        ELSE IF history.none
        THEN IF c.err
             THEN [err |-> TRUE, list |-> history, length |-> value]
             ELSE [err |-> FALSE, list |-> c.list, length |-> c.list.max_length]
        ELSE IF m.err
             THEN [err |-> TRUE, list |-> history, length |-> value]
             ELSE [err |-> FALSE, list |-> [history EXCEPT !.max_length = m.v],
                   length |-> value]

\* the history_length property setter; err is ValueError
set_history_length(value) ==
    LET v == HM_validate_none_or_non_neg_int(value)
        c == CloggableList(value, history_tolerance)
        m == validate_non_neg_int(value)
    IN  IF v.err
        THEN [err |-> TRUE, list |-> history, length |-> history_length]
        ELSE IF value = None
        THEN [err |-> FALSE, list |-> NoList, length |-> None]
        ELSE IF history.none
        THEN IF c.err
             THEN [err |-> TRUE, list |-> history, length |-> value]
             ELSE [err |-> FALSE, list |-> c.list, length |-> c.list.max_length]
        ELSE IF m.err
             THEN [err |-> TRUE, list |-> history, length |-> value]
             ELSE [err |-> FALSE, list |-> [history EXCEPT !.max_length = m.v],
                   length |-> value]

\* hm.history_length = value
SetHistoryLength(value) ==
    /\ ~hmErr
    /\ LET r == set_history_length(value)
       IN  /\ history' = r.list
           /\ history_length' = r.length
    /\ done' = NoTask
    /\ UNCHANGED <<hmErr, history_tolerance, generator, lock, waiters, task,
                   sent, nextJob, dbs, bufvars, wmvars, iovars, dbvars>>

\* the history_tolerance property setter; err is ValueError
set_history_tolerance(value) ==
    LET v == HM_validate_none_or_non_neg_int(value)
        m == validate_none_or_non_neg_int(value)
    IN  IF v.err
        THEN [err |-> TRUE, list |-> history, tolerance |-> history_tolerance]
        ELSE IF history.none \/ m.err
        THEN [err |-> m.err /\ ~history.none, list |-> history, tolerance |-> value]
        ELSE [err |-> FALSE, list |-> [history EXCEPT !.tolerance = m.v],
              tolerance |-> value]

\* hm.history_tolerance = value
SetHistoryTolerance(value) ==
    /\ ~hmErr
    /\ LET r == set_history_tolerance(value)
       IN  /\ history' = r.list
           /\ history_tolerance' = r.tolerance
    /\ done' = NoTask
    /\ UNCHANGED <<hmErr, history_length, generator, lock, waiters, task, sent,
                   nextJob, dbs, bufvars, wmvars, iovars, dbvars>>

\* hm.history_dump_generator = a generator (g) or None (~g)
SetGenerator(g) ==
    /\ ~hmErr
    /\ generator' = g
    /\ done' = NoTask
    /\ UNCHANGED <<hmErr, history, history_length, history_tolerance, lock,
                   waiters, task, sent, nextJob, dbs, bufvars, wmvars, iovars, dbvars>>

\* the HistoryManager: its calls, its property setters, and direct use of the
\* buffer it exposes
Next ==
    \/ \E t \in Tasks : AppendCall(t)
    \/ \E t \in Tasks : AppendResume(t)
    \/ \E t \in Tasks : FlushCall(t)
    \/ \E t \in Tasks, ok \in BOOLEAN : DispatchDone(t, ok)
    \/ DirectInsert
    \/ \E v \in CapArgs : SetHistoryLength(v)
    \/ \E v \in TolArgs : SetHistoryTolerance(v)
    \/ \E g \in BOOLEAN : SetGenerator(g)

Spec == Init /\ [][Next]_vars

\* the Manager's life cycle around a HistoryManager configured at construction:
\* connect, history appends and flushes, shutdown
NextManager ==
    \/ \E t \in Tasks : AppendCall(t)
    \/ \E t \in Tasks : AppendResume(t)
    \/ \E t \in Tasks : FlushCall(t)
    \/ \E t \in Tasks, ok \in BOOLEAN : DispatchDone(t, ok)
    \/ DirectInsert
    \/ \E p \in Paths : Connect(p)
    \/ \E t \in Tasks : ShutdownCall(t)
    \/ \E t \in Tasks, ok \in BOOLEAN : CloseOne(t, ok)

SpecManager == Init /\ [][NextManager]_vars

(* --------------------------- manager/dbpathdict.py -------------------- *)
\* the strings used as paths and aliases; "" is the empty string
Names == {"a", "b"}

\* Optional[str]: None, or a str
AliasNone == [none |-> TRUE, s |-> ""]
Alias(s) == [none |-> FALSE, s |-> s]

\* `if pc.alias`: None and "" are falsy
HasAlias(pc) == ~pc.alias.none /\ pc.alias.s # ""

\* PathConnection(path, write_conn, alias=alias); the connection is the
\* object's own
PathConnection(path, alias) == [path |-> path, alias |-> alias]

\* DbPathDict(): pcs are the PathConnection objects handed to it so far (an
\* object is the index it has in pcs), path_connections the set of them,
\* key_to_pc the dict _key_to_pc (0 for a key it does not have)
DbPathDict ==
    [pcs |-> <<>>, path_connections |-> {}, key_to_pc |-> [k \in Names |-> 0]]

\* DbPathDict._check_key(key) for a str: the exception, "" if none
check_key(key) == IF key = "" THEN "ValueError" ELSE ""

\* DbPathDict._update_key_mapping(pc) and _remove_key_mapping(pc)
update_key_mapping(d, pc) ==
    [d EXCEPT !.key_to_pc =
        [k \in Names |-> IF k = d.pcs[pc].path \/ (HasAlias(d.pcs[pc]) /\ k = d.pcs[pc].alias.s)
                         THEN pc ELSE @[k]]]

remove_key_mapping(d, pc) ==
    [d EXCEPT !.key_to_pc =
        [k \in Names |-> IF k = d.pcs[pc].path \/ (HasAlias(d.pcs[pc]) /\ k = d.pcs[pc].alias.s)
                         THEN 0 ELSE @[k]]]

\* PathConnection.__eq__ / __hash__: objects with the same path are equal, so
\* path_connections.add(pc) adds nothing when the set holds an equal object,
\* and path_connections.remove(pc) removes the object equal to pc
EqualIn(d, pc) == {e \in d.path_connections : d.pcs[e].path = d.pcs[pc].path}

set_add(d, pc) ==
    IF EqualIn(d, pc) # {} THEN d
    ELSE [d EXCEPT !.path_connections = @ \cup {pc}]

set_remove(d, pc) == [d EXCEPT !.path_connections = @ \ EqualIn(d, pc)]

\* the objects of the set that the loops of __setitem__ and __delitem__ stop
\* at: key is their path or their alias
Matching(d, key) ==
    {e \in d.path_connections :
        key = d.pcs[e].path \/ (~d.pcs[e].alias.none /\ key = d.pcs[e].alias.s)}

\* DbPathDict.__setitem__(key, value) for a str key and a PathConnection
\* value, when the loop over the set stops at found (0: at none)
setitem(d, key, value, found) ==
    IF check_key(key) # "" THEN [exc |-> check_key(key), d |-> d]
    ELSE LET d1 == IF found = 0 THEN d
                   ELSE [remove_key_mapping(d, found)
                            EXCEPT !.path_connections = @ \ {found}]
             preserved == /\ found # 0
                          /\ value.alias.none /\ ~d.pcs[found].alias.none
             new_pc == IF preserved
                       THEN PathConnection(value.path, d.pcs[found].alias)
                       ELSE value
             d2 == [d1 EXCEPT !.pcs = Append(@, new_pc)]
         IN  [exc |-> "", d |-> update_key_mapping(set_add(d2, Len(d2.pcs)),
                                                   Len(d2.pcs))]

\* DbPathDict.__delitem__(key) for a str key
delitem(d, key, found) ==
    IF check_key(key) # "" THEN [exc |-> check_key(key), d |-> d]
    ELSE IF found = 0 THEN [exc |-> "KeyError", d |-> d]
    ELSE [exc |-> "", d |-> [remove_key_mapping(d, found)
                                EXCEPT !.path_connections = @ \ {found}]]

\* DbPathDict.setalias(key, new_alias)
setalias(d, key, new_alias) ==
    IF check_key(key) # "" THEN [exc |-> check_key(key), d |-> d]
    ELSE IF ~new_alias.none /\ check_key(new_alias.s) # ""
    THEN [exc |-> check_key(new_alias.s), d |-> d]
    ELSE IF ~new_alias.none /\ d.key_to_pc[new_alias.s] # 0
    THEN [exc |-> "KeyError", d |-> d]
    ELSE LET target == d.key_to_pc[key]
         IN  IF target = 0 THEN [exc |-> "KeyError", d |-> d]
             ELSE LET d1 == IF HasAlias(d.pcs[target])
                            THEN [d EXCEPT !.key_to_pc[d.pcs[target].alias.s] = 0]
                            ELSE d
                      d2 == [d1 EXCEPT !.pcs[target].alias = new_alias]
                  IN  [exc |-> "",
                       d |-> IF ~new_alias.none
                             THEN [d2 EXCEPT !.key_to_pc[new_alias.s] = target]
                             ELSE d2]

\* DbPathDict.setpath(old_key, new_path)
setpath(d, old_key, new_path) ==
    IF check_key(old_key) # "" THEN [exc |-> check_key(old_key), d |-> d]
    ELSE IF check_key(new_path) # "" THEN [exc |-> check_key(new_path), d |-> d]
    ELSE IF d.key_to_pc[new_path] # 0 THEN [exc |-> "KeyError", d |-> d]
    ELSE LET target == d.key_to_pc[old_key]
         IN  IF target = 0 THEN [exc |-> "KeyError", d |-> d]
             ELSE LET d1 == remove_key_mapping(d, target)
                  IN  IF EqualIn(d1, target) = {} THEN [exc |-> "KeyError", d |-> d1]
                      ELSE LET d2 == [set_remove(d1, target)
                                         EXCEPT !.pcs[target].path = new_path]
                           IN  [exc |-> "",
                                d |-> update_key_mapping(set_add(d2, target), target)]

\* the keys and the PathConnection objects passed to the calls
KeyArgsOfDict == Names \cup {""}
AliasArgs == {AliasNone, Alias("")} \cup {Alias(s) : s \in Names}

InitRegistry ==
    /\ reg = [NoReg EXCEPT !.d = DbPathDict]
    /\ mgr = NoMgr /\ tx = NoTx /\ tbl = NoTbl
    /\ IoIdle
    /\ HmIdle
    /\ BufIdle
    /\ WmIdle

\* a call on the DbPathDict has returned or raised; kept: it left the
\* objects, the set and the dict as they were
Called(op, r) == [op |-> op, exc |-> r.exc, d |-> r.d, kept |-> r.d = reg.d]

\* d[key] = PathConnection(path, conn, alias=alias)
SetItem(key, path, alias) ==
    /\ Len(reg.d.pcs) < MaxPcs
    /\ \E found \in Matching(reg.d, key) \cup {0} :
          /\ found = 0 => Matching(reg.d, key) = {}
          /\ reg' = Called("setitem",
                           setitem(reg.d, key, PathConnection(path, alias), found))
    /\ UNCHANGED <<mgr, tx, tbl, iovars, hmvars, bufvars, wmvars>>

\* del d[key]
DelItem(key) ==
    /\ \E found \in Matching(reg.d, key) \cup {0} :
          /\ found = 0 => Matching(reg.d, key) = {}
          /\ reg' = Called("delitem", delitem(reg.d, key, found))
    /\ UNCHANGED <<mgr, tx, tbl, iovars, hmvars, bufvars, wmvars>>

\* d.setalias(key, new_alias)
SetAlias(key, new_alias) ==
    /\ reg' = Called("setalias", setalias(reg.d, key, new_alias))
    /\ UNCHANGED <<mgr, tx, tbl, iovars, hmvars, bufvars, wmvars>>

\* d.setpath(old_key, new_path)
SetPath(old_key, new_path) ==
    /\ reg' = Called("setpath", setpath(reg.d, old_key, new_path))
    /\ UNCHANGED <<mgr, tx, tbl, iovars, hmvars, bufvars, wmvars>>

NextRegistry ==
    \/ \E key \in KeyArgsOfDict, path \in Names, alias \in AliasArgs :
          SetItem(key, path, alias)
    \/ \E key \in KeyArgsOfDict : DelItem(key)
    \/ \E key \in KeyArgsOfDict, new_alias \in AliasArgs : SetAlias(key, new_alias)
    \/ \E old_key, new_path \in KeyArgsOfDict : SetPath(old_key, new_path)

SpecRegistry == InitRegistry /\ [][NextRegistry]_vars

(* ------------- manager/manager_base.py, manager/manager.py ------------ *)
\* the tasks that call one Manager
Callers == 1 .. MaxCallers

\* a task between its calls: holds is the Lock object whose queue() body it
\* is in (0: none) and qpath the path it queued on, lock the Lock object it
\* waits for, path the argument of its connect or close, target the
\* PathConnection close looked up, got the connection its last connect
\* returned (0: none), exc what its last call raised
IdleTask ==
    [pc |-> "idle", holds |-> 0, qpath |-> "", lock |-> 0, path |-> "",
     target |-> 0, got |-> 0, exc |-> ""]

NoLast == [op |-> "none", was |-> 0, ret |-> 0, opened |-> FALSE]

\* ManagerBase.__init__: db is _db_dict and write_conn[i] the connection of
\* the PathConnection object i; connections are numbered as aiosqlite opens
\* them (opened so far, closed those closed); locks is _locks (0: no entry)
\* and holder[l] the task that holds Lock object l (0: free); popped: close
\* has removed a Lock object from _locks
InitConnect ==
    /\ mgr = [op |-> "run", db |-> DbPathDict, write_conn |-> <<>>,
              opened |-> 0, closed |-> {},
              locks |-> [p \in Names |-> 0], holder |-> <<>>, popped |-> FALSE,
              task |-> [t \in Callers |-> IdleTask], last |-> NoLast]
    /\ reg = NoReg /\ tx = NoTx /\ tbl = NoTbl
    /\ IoIdle
    /\ HmIdle
    /\ BufIdle
    /\ WmIdle

\* ManagerBase._get_lock(db_path): self._locks.setdefault(db_path, Lock())
get_lock(m, db_path) ==
    IF m.locks[db_path] # 0 THEN m
    ELSE [m EXCEPT !.locks[db_path] = Len(m.holder) + 1,
                   !.holder = Append(@, 0)]

\* "db_path in self.db_dict"
InDbDict(m, db_path) == m.db.key_to_pc[db_path] # 0

\* Manager.queue(db_path) up to the yield, or up to the wait for the Lock
QueueEnter(t, db_path) ==
    /\ mgr.task[t].pc = "idle" /\ mgr.task[t].holds = 0
    /\ mgr.locks[db_path] = 0 => Len(mgr.holder) < MaxLocks
    /\ LET m == get_lock(mgr, db_path)
           held == m.locks[db_path]
       IN  mgr' = IF m.holder[held] = 0
                  THEN [m EXCEPT !.holder[held] = t,
                                 !.task[t].holds = held,
                                 !.task[t].qpath = db_path,
                                 !.last = NoLast]
                  ELSE [m EXCEPT !.task[t].pc = "waiting",
                                 !.task[t].lock = held,
                                 !.task[t].qpath = db_path,
                                 !.last = NoLast]
    /\ UNCHANGED <<reg, tx, tbl, iovars, hmvars, bufvars, wmvars>>

\* the Lock a task waits for was released: the task enters the body
QueueAcquired(t) ==
    /\ mgr.task[t].pc = "waiting"
    /\ mgr.holder[mgr.task[t].lock] = 0
    /\ mgr' = [mgr EXCEPT !.holder[mgr.task[t].lock] = t,
                          !.task[t].pc = "idle",
                          !.task[t].holds = mgr.task[t].lock,
                          !.task[t].lock = 0,
                          !.last = NoLast]
    /\ UNCHANGED <<reg, tx, tbl, iovars, hmvars, bufvars, wmvars>>

\* the body of queue() ends: the Lock is released
QueueExit(t) ==
    /\ mgr.task[t].pc = "idle" /\ mgr.task[t].holds # 0
    /\ mgr' = [mgr EXCEPT !.holder[mgr.task[t].holds] = 0,
                          !.task[t].holds = 0,
                          !.task[t].qpath = "",
                          !.last = NoLast]
    /\ UNCHANGED <<reg, tx, tbl, iovars, hmvars, bufvars, wmvars>>

\* ManagerBase.connect(db_path) up to its return for a registered path, or
\* up to "await connect(db_path)"
ConnectCall(t, db_path) ==
    /\ mgr.task[t].pc = "idle"
    /\ ~InDbDict(mgr, db_path) => mgr.opened < MaxConns
    /\ mgr' = IF InDbDict(mgr, db_path)
              THEN LET write_conn == mgr.write_conn[mgr.db.key_to_pc[db_path]]
                   IN  [mgr EXCEPT !.task[t].path = db_path,
                                   !.task[t].got = write_conn,
                                   !.task[t].exc = "",
                                   !.last = [op |-> "connect", was |-> write_conn,
                                             ret |-> write_conn, opened |-> FALSE]]
              ELSE [mgr EXCEPT !.task[t].pc = "connecting",
                               !.task[t].path = db_path,
                               !.task[t].got = 0,
                               !.task[t].exc = "",
                               !.last = NoLast]
    /\ UNCHANGED <<reg, tx, tbl, iovars, hmvars, bufvars, wmvars>>

\* "await connect(db_path)" is over: it raised (ok = FALSE), or it opened a
\* connection, which is put into _db_dict[db_path] and returned
ConnectResume(t, ok) ==
    /\ mgr.task[t].pc = "connecting"
    /\ LET db_path == mgr.task[t].path
           write_conn == mgr.opened + 1
           found == Matching(mgr.db, db_path)
           r == setitem(mgr.db, db_path, PathConnection(db_path, AliasNone),
                        IF found = {} THEN 0 ELSE CHOOSE e \in found : TRUE)
       IN  mgr' = IF ok
                  THEN [mgr EXCEPT !.opened = write_conn,
                                   !.db = r.d,
                                   !.write_conn = Append(@, write_conn),
                                   !.task[t].pc = "idle",
                                   !.task[t].got = write_conn,
                                   !.last = [op |-> "connect", was |-> 0,
                                             ret |-> write_conn, opened |-> TRUE]]
                  ELSE [mgr EXCEPT !.task[t].pc = "idle",
                                   !.task[t].exc = "ConnectionError",
                                   !.last = NoLast]
    /\ UNCHANGED <<reg, tx, tbl, iovars, hmvars, bufvars, wmvars>>

\* ManagerBase.close(db_path) up to "await pc.write_conn.close()"; for a path
\* that is not registered it returns at once
CloseCall(t, db_path) ==
    /\ mgr.task[t].pc = "idle"
    /\ mgr' = IF InDbDict(mgr, db_path)
              THEN [mgr EXCEPT !.task[t].pc = "closing",
                               !.task[t].path = db_path,
                               !.task[t].target = mgr.db.key_to_pc[db_path],
                               !.task[t].exc = "",
                               !.last = NoLast]
              ELSE [mgr EXCEPT !.task[t].path = db_path,
                               !.task[t].exc = "",
                               !.last = NoLast]
    /\ UNCHANGED <<reg, tx, tbl, iovars, hmvars, bufvars, wmvars>>

\* the connection is closed: close() deletes the path from _db_dict and pops
\* its Lock from _locks (a KeyError of __delitem__ leaves the Lock)
CloseResume(t) ==
    /\ mgr.task[t].pc = "closing"
    /\ LET db_path == mgr.task[t].path
           found == Matching(mgr.db, db_path)
           r == delitem(mgr.db, db_path,
                        IF found = {} THEN 0 ELSE CHOOSE e \in found : TRUE)
           m == [mgr EXCEPT !.closed = @ \cup {mgr.write_conn[mgr.task[t].target]},
                            !.db = r.d,
                            !.task[t].pc = "idle",
                            !.task[t].target = 0,
                            !.task[t].exc = r.exc,
                            !.last = NoLast]
       IN  mgr' = IF r.exc # "" THEN m
                  ELSE [m EXCEPT !.locks[db_path] = 0,
                                 !.popped = @ \/ mgr.locks[db_path] # 0]
    /\ UNCHANGED <<reg, tx, tbl, iovars, hmvars, bufvars, wmvars>>

NextConnect ==
    \/ \E t \in Callers, db_path \in Names : QueueEnter(t, db_path)
    \/ \E t \in Callers : QueueAcquired(t)
    \/ \E t \in Callers : QueueExit(t)
    \/ \E t \in Callers, db_path \in Names : ConnectCall(t, db_path)
    \/ \E t \in Callers, ok \in BOOLEAN : ConnectResume(t, ok)
    \/ \E t \in Callers, db_path \in Names : CloseCall(t, db_path)
    \/ \E t \in Callers : CloseResume(t)

SpecConnect == InitConnect /\ [][NextConnect]_vars

(* ---------------------- manager/transaction.py ------------------------ *)
\* the Transaction objects made for one database path of one Manager
Txns == 1 .. MaxTxns

\* Optional[bool]
PyTrue == "True"
PyFalse == "False"
NoBool == "None"

\* Transaction.__init__: connection is the connection __aenter__ got (0:
\* none yet), n the statements executed through the object and stmts those
\* that did not raise, raised whether the body raised, exc what the last
\* call on the object raised
NewTransaction(autocommit) ==
    [state |-> "new", autocommit |-> autocommit, connection |-> 0,
     succeeded |-> NoBool, n |-> 0, stmts |-> {}, raised |-> FALSE, exc |-> ""]

\* Transaction.succeeded
succeeded(t) == t.succeeded

\* Transaction.failed
failed(t) ==
    IF t.succeeded = NoBool THEN NoBool
    ELSE IF t.succeeded = PyTrue THEN PyFalse ELSE PyTrue

\* ManagerBase._should_commit(commit, override_autocommit, mode = "write")
should_commit(autocommit, commit, override_autocommit) ==
    commit \/ (autocommit /\ ~override_autocommit)

\* a Manager(autocommit = ...) and the Transaction objects made from it. The
\* write connections of the path are numbered as they are opened; conn is the
\* one registered (0: none), the only one that is open. in_tx: SQLite has a
\* transaction open on it, pending: the statements of that transaction,
\* committed: the statements in the database file; midcommit: an execute()
\* has committed
InitTransaction ==
    /\ \E autocommit \in BOOLEAN, own \in [Txns -> BOOLEAN] :
          tx = [op |-> "run", autocommit |-> autocommit, conn |-> 0, opened |-> 0,
                in_tx |-> FALSE, pending |-> {}, committed |-> {},
                midcommit |-> FALSE,
                txn |-> [i \in Txns |-> NewTransaction(own[i])]]
    /\ reg = NoReg /\ mgr = NoMgr /\ tbl = NoTbl
    /\ IoIdle
    /\ HmIdle
    /\ BufIdle
    /\ WmIdle

\* ManagerBase.connect(db_path) as one step: the registered connection, or
\* a new one that it registers
connected(x) ==
    IF x.conn # 0 THEN x
    ELSE [x EXCEPT !.conn = x.opened + 1, !.opened = x.opened + 1,
                   !.in_tx = FALSE, !.pending = {}]

\* conn.commit() on the registered connection
conn_commit(x) ==
    [x EXCEPT !.committed = @ \cup x.pending, !.pending = {}, !.in_tx = FALSE]

\* conn.rollback() on the registered connection
conn_rollback(x) == [x EXCEPT !.pending = {}, !.in_tx = FALSE]

\* ManagerBase.commit(db_path): nothing when no connection is registered
commit(x) == IF x.conn = 0 THEN x ELSE conn_commit(x)

\* Transaction.__aenter__: connect, cursor, BEGIN (which SQLite refuses
\* inside a transaction: TransactionError, and the context is not entered)
TxEnter(i) ==
    /\ tx.txn[i].state = "new"
    /\ tx.conn = 0 => tx.opened < MaxGens
    /\ LET x == connected(tx)
       IN  tx' = IF x.in_tx
                 THEN [x EXCEPT !.txn[i].connection = x.conn,
                                !.txn[i].exc = "TransactionError"]
                 ELSE [x EXCEPT !.in_tx = TRUE,
                                !.txn[i].connection = x.conn,
                                !.txn[i].state = "entered",
                                !.txn[i].exc = ""]
    /\ UNCHANGED <<reg, mgr, tbl, iovars, hmvars, bufvars, wmvars>>

\* Transaction.execute(query, commit = ..., override_autocommit = ...) of a
\* writing statement: ManagerBase.execute connects, runs the statement on the
\* cursor of the Transaction (which raises when its connection was closed),
\* and commits the registered connection if _should_commit says so
TxExecute(i, commit_flag, override_autocommit) ==
    /\ tx.txn[i].state = "entered"
    /\ tx.txn[i].n < MaxStmts
    /\ tx.conn = 0 => tx.opened < MaxGens
    /\ LET x == connected(tx)
           stmt == <<i, tx.txn[i].n + 1>>
           ran == [x EXCEPT !.pending = @ \cup {stmt}, !.in_tx = TRUE,
                            !.txn[i].n = @ + 1,
                            !.txn[i].stmts = @ \cup {stmt},
                            !.txn[i].exc = ""]
       IN  tx' = IF tx.txn[i].connection # x.conn
                 THEN [x EXCEPT !.txn[i].n = @ + 1,
                                !.txn[i].exc = "ProgrammingError"]
                 ELSE IF should_commit(x.autocommit, commit_flag, override_autocommit)
                 THEN [conn_commit(ran) EXCEPT !.midcommit = TRUE]
                 ELSE ran
    /\ UNCHANGED <<reg, mgr, tbl, iovars, hmvars, bufvars, wmvars>>

\* the body of the context ends, raising or not: Transaction.__aexit__
TxExit(i, raised) ==
    /\ tx.txn[i].state = "entered"
    /\ LET t == tx.txn[i]
           closed == t.connection # tx.conn
           x == IF raised \/ ~t.autocommit
                THEN IF closed THEN tx ELSE conn_rollback(tx)
                ELSE commit(tx)
           status == IF raised \/ ~t.autocommit THEN PyFalse ELSE PyTrue
       IN  tx' = [x EXCEPT !.txn[i].state = "exited",
                           !.txn[i].raised = raised,
                           !.txn[i].succeeded = status,
                           !.txn[i].exc = IF closed THEN "ProgrammingError" ELSE ""]
    /\ UNCHANGED <<reg, mgr, tbl, iovars, hmvars, bufvars, wmvars>>

\* ManagerBase.close(db_path): the registered connection is closed (SQLite
\* drops what was not committed) and leaves the registry
TxClose ==
    /\ tx.conn # 0
    /\ tx' = [tx EXCEPT !.conn = 0, !.pending = {}, !.in_tx = FALSE]
    /\ UNCHANGED <<reg, mgr, tbl, iovars, hmvars, bufvars, wmvars>>

NextTransaction ==
    \/ \E i \in Txns : TxEnter(i)
    \/ \E i \in Txns, commit_flag, override_autocommit \in BOOLEAN :
          TxExecute(i, commit_flag, override_autocommit)
    \/ \E i \in Txns, raised \in BOOLEAN : TxExit(i, raised)
    \/ TxClose

SpecTransaction == InitTransaction /\ [][NextTransaction]_vars

(* ------------------ async_history_dump/async_history_dump.py ---------- *)
Files == 1 .. NumFiles
Filetypes == {"json", "txt"}
Modes == {"overwrite", "append"}

\* a key: None, or a tuple of segments
KeyNone == [none |-> TRUE, parts |-> <<>>]
Key(parts) == [none |-> FALSE, parts |-> parts]
KeyArgs == {KeyNone, Key(<<>>), Key(<<"k">>)}

\* tuple(key) if key else None: None and the empty tuple are falsy
normalize_key(key) == IF key.none \/ key.parts = <<>> THEN KeyNone ELSE key

\* AsyncHistoryDump.__init__ with valid path, mode and filetype, and with
\* strict_keys left at its default
AsyncHistoryDump(path, mode, filetype, key, data) ==
    [path |-> path, mode |-> mode, filetype |-> filetype,
     key |-> normalize_key(key), data |-> data, strict_keys |-> FALSE]

\* the arguments of one constructor call, the payload aside
DumpArgs == [path : Files, mode : Modes, filetype : Filetypes, key : KeyArgs]

\* a grouping that leaves the key out of the group's key
group_key_without_key(d) == [path |-> d.path, filetype |-> d.filetype, key |-> KeyNone]

\* the key of the group a dump goes to
group_key(d) == [path |-> d.path, filetype |-> d.filetype, key |-> normalize_key(d.key)]

\* groups[(d.path, d.filetype, key)].append(d): groups is a dict, which keeps
\* its keys in the order of their first insertion
add_to_groups(groups, d) ==
    IF \E i \in 1 .. Len(groups) : groups[i].k = group_key(d)
    THEN LET i == CHOOSE i \in 1 .. Len(groups) : groups[i].k = group_key(d)
         IN  [groups EXCEPT ![i].batch = Append(@, d)]
    ELSE Append(groups, [k |-> group_key(d), batch |-> <<d>>])

\* the first loop of write_many
RECURSIVE group_dumps(_)
group_dumps(dumps) ==
    IF dumps = <<>> THEN <<>>
    ELSE add_to_groups(group_dumps(SubSeq(dumps, 1, Len(dumps) - 1)),
                       dumps[Len(dumps)])

\* the second loop of write_many: one writer.write_batch(...) per group, with
\* the mode and the strict_keys of the group's first dump and the payloads of
\* all of them
write_batch_calls(dumps) ==
    LET groups == group_dumps(dumps)
    IN  [i \in 1 .. Len(groups) |->
            [path |-> groups[i].k.path, filetype |-> groups[i].k.filetype,
             key |-> groups[i].k.key, mode |-> groups[i].batch[1].mode,
             strict_keys |-> groups[i].batch[1].strict_keys,
             data_list |-> [j \in 1 .. Len(groups[i].batch) |->
                                groups[i].batch[j].data],
             st |-> "running"]]

\* what asyncio.gather(*tasks) has for its awaiter: a result once every task
\* is done, the exception as soon as one task has failed
gather(calls) ==
    IF \E i \in 1 .. Len(calls) : calls[i].st = "failed" THEN "raised"
    ELSE IF \A i \in 1 .. Len(calls) : calls[i].st = "done" THEN "returned"
    ELSE "gathering"

\* the dumps of a write_many call: up to MaxDumps objects, the i-th carrying
\* the payload i
InitDispatch ==
    /\ \E n \in 0 .. MaxDumps : \E a \in [1 .. n -> DumpArgs] :
          wm_dumps = [i \in 1 .. n |->
                         AsyncHistoryDump(a[i].path, a[i].mode, a[i].filetype,
                                          a[i].key, i)]
    /\ wm_state = "idle" /\ wm_calls = <<>>
    /\ HmIdle
    /\ BufIdle
    /\ IoIdle
    /\ DbIdle

\* await AsyncHistoryDump.write_many(wm_dumps), up to the await of gather:
\* gather of no task is complete at once
WriteManyCall ==
    /\ wm_state = "idle"
    /\ wm_calls' = write_batch_calls(wm_dumps)
    /\ wm_state' = IF wm_calls' = <<>> THEN "returned" ELSE "gathering"
    /\ UNCHANGED <<wm_dumps, hmvars, bufvars, iovars, dbvars>>

\* the write_batch coroutine of group i completes (ok) or raises; a task that
\* gather started runs on after gather has raised
WriterDone(i, ok) ==
    /\ i \in 1 .. Len(wm_calls)
    /\ wm_calls[i].st = "running"
    /\ wm_calls' = [wm_calls EXCEPT ![i].st = IF ok THEN "done" ELSE "failed"]
    /\ UNCHANGED <<wm_dumps, wm_state, hmvars, bufvars, iovars, dbvars>>

\* write_many resumes from its await: it returns, or raises what gather raised
GatherDone ==
    /\ wm_state = "gathering"
    /\ gather(wm_calls) # "gathering"
    /\ wm_state' = gather(wm_calls)
    /\ UNCHANGED <<wm_dumps, wm_calls, hmvars, bufvars, iovars, dbvars>>

NextDispatch ==
    \/ WriteManyCall
    \/ \E i \in 1 .. MaxDumps, ok \in BOOLEAN : WriterDone(i, ok)
    \/ GatherDone

SpecDispatch == InitDispatch /\ [][NextDispatch]_vars

(* ------------------------- async_history_dump/merge.py ---------------- *)
\* d.keys(), `k in d`, d[k], d.get(k), d[k] = v and d.update(data) of a dict:
\* assigning to a key the dict has keeps the key's position
dict_keys(d) == [i \in 1 .. Len(d.items) |-> d.items[i].k]
dict_contains(d, k) == \E i \in 1 .. Len(d.items) : d.items[i].k = k
dict_getitem(d, k) ==
    d.items[CHOOSE i \in 1 .. Len(d.items) : d.items[i].k = k].v
dict_get(d, k) == IF dict_contains(d, k) THEN dict_getitem(d, k) ELSE PyNone
dict_setitem(d, k, v) ==
    IF dict_contains(d, k)
    THEN PyDict([i \in 1 .. Len(d.items) |->
                    IF d.items[i].k = k THEN Pair(k, v) ELSE d.items[i]])
    ELSE PyDict(Append(d.items, Pair(k, v)))

\* an update in which the values the dict already has win
RECURSIVE dict_update_keeping_existing(_, _)
dict_update_keeping_existing(d, data) ==
    IF data.items = <<>> THEN d
    ELSE dict_update_keeping_existing(
             IF dict_contains(d, Head(data.items).k) THEN d
             ELSE dict_setitem(d, Head(data.items).k, Head(data.items).v),
             PyDict(Tail(data.items)))

RECURSIVE dict_update(_, _)
dict_update(d, data) ==
    IF data.items = <<>> THEN d
    ELSE dict_update(dict_setitem(d, Head(data.items).k, Head(data.items).v),
                     PyDict(Tail(data.items)))

\* s.update(data) of a set
set_update(s, data) ==
    PySet(s.items \o SelectSeq(data.items,
                               LAMBDA x : \A i \in 1 .. Len(s.items) : s.items[i] # x))

\* `k in obj` for a string k: a key of a dict, an element of a list, tuple or
\* set, a substring of a str (here: the str itself)
contains(obj, k) ==
    IF obj.t = "dict" THEN dict_contains(obj, k)
    ELSE IF obj.t = "str" THEN obj.s = k
    ELSE \E i \in 1 .. Len(obj.items) : obj.items[i] = PyStr(k)

\* the items of the list that force_list returns
force_list(obj) ==
    IF obj.t = "None" THEN <<>>
    ELSE IF obj.t = "list" THEN obj.items
    ELSE IF obj.t \in {"tuple", "set"} THEN obj.items
    ELSE IF obj.t = "str" THEN <<obj>>
    ELSE <<obj>>

\* a merge that puts the new rows before the existing ones
merge_flat_new_first(existing, new, mode) ==
    IF mode = "overwrite" THEN Ok(PyList(force_list(new)))
    ELSE IF mode \in {"append", "extend", "update"}
    THEN Ok(PyList(force_list(new) \o force_list(existing)))
    ELSE Raise("ValueError")

merge_flat(existing, new, mode) ==
    LET existing_list == force_list(existing)
        new_list == force_list(new)
    IN  IF mode = "overwrite" THEN Ok(PyList(new_list))
        ELSE IF mode \in {"append", "extend", "update"}
        THEN Ok(PyList(existing_list \o new_list))
        ELSE Raise("ValueError")

\* key[:-1] and key[-1]
AllButLast(key) == SubSeq(key, 1, Len(key) - 1)
Last(key) == key[Len(key)]

\* the loop of resolve_nested from current on, for the segments ks: the
\* exception it raises, or current with the dicts the loop created in it
RECURSIVE resolve_from(_, _, _)
resolve_from(current, ks, create) ==
    IF ks = <<>> THEN Ok(current)
    ELSE LET k == Head(ks)
         IN  IF current.t \in {"int", "None"} THEN Raise("TypeError")
             ELSE IF current.t # "dict"
             THEN IF ~contains(current, k) /\ ~create THEN Raise("KeyError")
                  ELSE Raise("TypeError")
             ELSE IF ~dict_contains(current, k) \/ dict_getitem(current, k).t # "dict"
             THEN IF ~create THEN Raise("KeyError")
                  ELSE Ok(dict_setitem(current, k,
                              resolve_from(PyDict(<<>>), Tail(ks), create).v))
             ELSE LET sub == resolve_from(dict_getitem(current, k), Tail(ks), create)
                  IN  IF sub.exc # "" THEN sub
                      ELSE Ok(dict_setitem(current, k, sub.v))

\* resolve_nested(obj, key, create): obj after the call; the container it
\* returns is the dict at key[:-1] in obj, the last key is key[-1]
resolve_nested(obj, key, create) == resolve_from(obj, AllButLast(key), create)

\* the object that the references obj[path[1]][path[2]]... lead to, and obj
\* after that object was changed into v
RECURSIVE get_path(_, _)
get_path(obj, path) ==
    IF path = <<>> THEN obj
    ELSE get_path(dict_getitem(obj, Head(path)), Tail(path))

RECURSIVE set_path(_, _, _)
set_path(obj, path, v) ==
    IF path = <<>> THEN v
    ELSE dict_setitem(obj, Head(path),
                      set_path(dict_getitem(obj, Head(path)), Tail(path), v))

\* what apply_mode_json returns
apply_mode_json(existing, data, mode) ==
    IF mode = "overwrite" THEN Ok(data)
    ELSE IF mode = "append"
    THEN IF existing.t = "list" THEN Ok(PyList(Append(existing.items, data)))
         ELSE IF existing.t = "dict" /\ data.t = "dict"
         THEN Ok(dict_update(existing, data))
         ELSE IF existing.t = "set" /\ data.t = "set"
         THEN Ok(set_update(existing, data))
         ELSE Ok(PyList(<<existing, data>>))
    ELSE IF mode \in {"extend", "update"}
    THEN IF existing.t = "list"
         THEN IF data.t # "list" THEN Raise("ValueError")
              ELSE Ok(PyList(existing.items \o data.items))
         ELSE IF existing.t = "dict" /\ data.t = "dict"
         THEN Ok(dict_update(existing, data))
         ELSE IF existing.t = "set" /\ data.t = "set"
         THEN Ok(set_update(existing, data))
         ELSE Raise("ValueError")
    ELSE Raise("ValueError")

\* a nested merge that wraps the payload of extend/update on an absent slot
apply_nested_json_wrapping(container, last_key, data, mode) ==
    IF container.t # "dict" THEN Raise("AttributeError")
    ELSE IF mode \in {"overwrite", "append", "extend", "update"}
    THEN Ok(dict_setitem(container, last_key, PyList(<<data>>)))
    ELSE Raise("ValueError")

\* the container after apply_nested_json
apply_nested_json(container, last_key, data, mode) ==
    IF container.t # "dict" THEN Raise("AttributeError")
    ELSE LET target == dict_get(container, last_key)
         IN  IF mode = "overwrite" THEN Ok(dict_setitem(container, last_key, data))
             ELSE IF mode = "append"
             THEN IF target.t = "None"
                  THEN Ok(dict_setitem(container, last_key, PyList(<<data>>)))
                  ELSE IF target.t = "list"
                  THEN Ok(dict_setitem(container, last_key,
                                       PyList(Append(target.items, data))))
                  ELSE IF target.t = "dict" /\ data.t = "dict"
                  THEN Ok(dict_setitem(container, last_key, dict_update(target, data)))
                  ELSE Ok(dict_setitem(container, last_key, PyList(<<target, data>>)))
             ELSE IF mode \in {"extend", "update"}
             THEN IF target.t = "None"
                  THEN Ok(dict_setitem(container, last_key, data))
                  ELSE IF target.t = "list" /\ data.t = "list"
                  THEN Ok(dict_setitem(container, last_key,
                                       PyList(target.items \o data.items)))
                  ELSE IF target.t = "dict" /\ data.t = "dict"
                  THEN Ok(dict_setitem(container, last_key, dict_update(target, data)))
                  ELSE IF target.t = "set" /\ data.t = "set"
                  THEN Ok(dict_setitem(container, last_key, set_update(target, data)))
                  ELSE Raise("ValueError")
             ELSE Raise("ValueError")

\* the keyed branch of JSONWriter.write_single: existing after
\* resolve_nested and apply_nested_json
write_nested(existing, data, mode, key, create) ==
    LET r == resolve_nested(existing, key, create)
    IN  IF r.exc # "" THEN r
        ELSE LET a == apply_nested_json(get_path(r.v, AllButLast(key)),
                                        Last(key), data, mode)
             IN  IF a.exc # "" THEN a
                 ELSE Ok(set_path(r.v, AllButLast(key), a.v))

\* the values the functions of merge.py are applied to
Ints == {PyInt(n) : n \in 1 .. MaxInt}
KeyNames == {"a", "b"}
Leaves == {PyNone, PyList(<<>>), PyList(<<PyInt(1)>>)} \cup Ints
SmallDicts ==
    {PyDict(<<>>), PyDict(<<Pair("a", PyInt(1)), Pair("b", PyInt(MaxInt))>>)}
        \cup {PyDict(<<Pair(k, v)>>) : k \in KeyNames, v \in Ints}
Documents ==
    (Leaves \cup SmallDicts)
        \cup {PyDict(<<Pair(k, v)>>) : k \in KeyNames, v \in Leaves \cup SmallDicts}
        \cup {PyDict(<<Pair("a", v), Pair("b", PyInt(1))>>) : v \in SmallDicts}
Payloads ==
    (Leaves \cup SmallDicts)
        \cup {PyStr("x"), PyList(<<PyInt(1), PyInt(MaxInt)>>),
              PyTuple(<<PyInt(1), PyInt(MaxInt)>>), PySet(<<PyInt(1)>>),
              PySet(<<PyInt(MaxInt)>>)}
KeyPaths == UNION {[1 .. n -> KeyNames] : n \in 1 .. MaxKeyLen}
AllModes == {"overwrite", "append", "extend", "update", "replace"}

\* the arguments of a call
InitMerge ==
    /\ \E existing \in Documents \cup Payloads, data \in Payloads,
          mode \in AllModes, key \in KeyPaths, create \in BOOLEAN :
          mg = [NoMerge EXCEPT !.existing = existing, !.data = data,
                               !.mode = mode, !.key = key, !.create = create]
    /\ wcall = NoWrite /\ wm_io = <<>> /\ ctor = NoCtor
    /\ DbIdle
    /\ fs = [f \in 1 .. NumFiles |-> Missing]
    /\ HmIdle
    /\ BufIdle
    /\ WmIdle

MergeFlat ==
    /\ mg.op = "none"
    /\ mg' = [mg EXCEPT !.op = "merge_flat",
                        !.out = merge_flat(mg.existing, mg.data, mg.mode)]
    /\ UNCHANGED <<fs, wcall, wm_io, ctor, hmvars, bufvars, wmvars, dbvars>>

ApplyModeJson ==
    /\ mg.op = "none"
    /\ mg' = [mg EXCEPT !.op = "apply_mode_json",
                        !.out = apply_mode_json(mg.existing, mg.data, mg.mode)]
    /\ UNCHANGED <<fs, wcall, wm_io, ctor, hmvars, bufvars, wmvars, dbvars>>

WriteNested ==
    /\ mg.op = "none"
    /\ mg' = [mg EXCEPT !.op = "write_nested",
                        !.out = write_nested(mg.existing, mg.data, mg.mode,
                                             mg.key, mg.create)]
    /\ UNCHANGED <<fs, wcall, wm_io, ctor, hmvars, bufvars, wmvars, dbvars>>

NextMerge ==
    \/ MergeFlat
    \/ ApplyModeJson
    \/ WriteNested

SpecMerge == InitMerge /\ [][NextMerge]_vars

(* ------------------------- async_history_dump/writers.py -------------- *)
\* ", ".join(parts)
RECURSIVE join(_)
join(parts) ==
    IF parts = <<>> THEN ""
    ELSE IF Len(parts) = 1 THEN parts[1]
    ELSE parts[1] \o ", " \o join(Tail(parts))

\* repr(v) and str(v), which f"{line}\n" and the csv module write
RECURSIVE py_repr(_)
py_repr(v) ==
    IF v.t = "None" THEN "None"
    ELSE IF v.t = "int" THEN ToString(v.n)
    ELSE IF v.t = "str" THEN "'" \o v.s \o "'"
    ELSE IF v.t = "list"
    THEN "[" \o join([i \in 1 .. Len(v.items) |-> py_repr(v.items[i])]) \o "]"
    ELSE IF v.t = "tuple"
    THEN IF Len(v.items) = 1 THEN "(" \o py_repr(v.items[1]) \o ",)"
         ELSE "(" \o join([i \in 1 .. Len(v.items) |-> py_repr(v.items[i])]) \o ")"
    ELSE IF v.t = "set"
    THEN IF v.items = <<>> THEN "set()"
         ELSE "{" \o join([i \in 1 .. Len(v.items) |-> py_repr(v.items[i])]) \o "}"
    ELSE "{" \o join([i \in 1 .. Len(v.items) |->
                         "'" \o v.items[i].k \o "': " \o py_repr(v.items[i].v)])
             \o "}"

py_str(v) == IF v.t = "str" THEN v.s ELSE py_repr(v)

\* json.dumps(v): the document that json.loads reads back from the text (a
\* tuple is written as an array), TypeError for what JSON cannot hold
RECURSIVE json_dumps(_)
json_dumps(v) ==
    IF v.t = "set" THEN Raise("TypeError")
    ELSE IF v.t \in {"list", "tuple"}
    THEN IF \E i \in 1 .. Len(v.items) : json_dumps(v.items[i]).exc # ""
         THEN Raise("TypeError")
         ELSE Ok(PyList([i \in 1 .. Len(v.items) |-> json_dumps(v.items[i]).v]))
    ELSE IF v.t = "dict"
    THEN IF \E i \in 1 .. Len(v.items) : json_dumps(v.items[i].v).exc # ""
         THEN Raise("TypeError")
         ELSE Ok(PyDict([i \in 1 .. Len(v.items) |->
                            Pair(v.items[i].k, json_dumps(v.items[i].v).v)]))
    ELSE Ok(v)

\* a file that holds json.dumps(doc, indent=2) / the lines line + "\n" (a
\* file of no lines has no characters)
JsonText(doc) == [kind |-> "json", doc |-> doc]
TxtText(lines) ==
    IF lines = <<>> THEN Blank ELSE [kind |-> "lines", doc |-> PyList(lines)]

\* what a writer call did: the exception it raised, what the file holds
\* afterwards, how often it opened the file for writing
Outcome(exc, content, opened) ==
    [exc |-> exc, content |-> content, opened |-> opened]

\* a read that takes a file it cannot parse for the empty list, key or not
read_json_always_list(content, key) ==
    IF content.kind = "json" THEN content.doc ELSE PyList(<<>>)

\* JSONWriter._read_json of a file that is missing, blank, no JSON, or JSON
read_json(content, key) ==
    IF content.kind = "json" THEN content.doc
    ELSE IF key.none THEN PyList(<<>>) ELSE PyDict(<<>>)

\* a validation that leaves the last segment to the merge
RECURSIVE validate_parents_only(_, _)
validate_parents_only(current, key) ==
    IF Len(key) <= 1 THEN ""
    ELSE IF current.t # "dict" THEN "TypeError"
    ELSE IF ~dict_contains(current, Head(key)) THEN "KeyError"
    ELSE validate_parents_only(dict_getitem(current, Head(key)), Tail(key))

\* JSONWriter._validate_strict_key: the exception it raises, "" if none
RECURSIVE validate_strict_key(_, _)
validate_strict_key(current, key) ==
    IF key = <<>> THEN ""
    ELSE IF current.t # "dict" THEN "TypeError"
    ELSE IF ~dict_contains(current, Head(key)) THEN "KeyError"
    ELSE validate_strict_key(dict_getitem(current, Head(key)), Tail(key))

\* the merge of JSONWriter.write_single, between its read and its write
json_merge(existing, data, mode, key, strict_keys) ==
    LET v == IF strict_keys /\ ~key.none
             THEN validate_strict_key(existing, key.parts) ELSE ""
    IN  IF v # "" THEN Raise(v)
        ELSE IF key.none THEN apply_mode_json(existing, data, mode)
        ELSE write_nested(existing, data, mode, key.parts, ~strict_keys)

\* open(path, "w") and f.write(json.dumps(existing, indent=2)): the file is
\* truncated when it is opened, before json.dumps runs
json_write(content, existing) ==
    IF json_dumps(existing).exc # "" THEN Outcome("TypeError", Blank, 1)
    ELSE Outcome("", JsonText(json_dumps(existing).v), 1)

\* a single write that opens the file before it merges
JSONWriter_write_single_open_first(content, data, mode, key, strict_keys) ==
    LET merged == json_merge(read_json(content, key), data, mode, key, strict_keys)
    IN  IF merged.exc # "" THEN Outcome(merged.exc, Blank, 1)
        ELSE json_write(content, merged.v)

JSONWriter_write_single(content, data, mode, key, strict_keys) ==
    LET merged == json_merge(read_json(content, key), data, mode, key, strict_keys)
    IN  IF merged.exc # "" THEN Outcome(merged.exc, content, 0)
        ELSE json_write(content, merged.v)

\* a batch written as one single write of the list of its payloads
JSONWriter_write_batch_as_one(content, data_list, mode, key, strict_keys) ==
    JSONWriter_write_single(content, PyList(data_list), mode, key, strict_keys)

RECURSIVE JSONWriter_write_batch(_, _, _, _, _)
JSONWriter_write_batch(content, data_list, mode, key, strict_keys) ==
    IF data_list = <<>> THEN Outcome("", content, 0)
    ELSE LET r == JSONWriter_write_single(content, Head(data_list), mode, key,
                                          strict_keys)
         IN  IF r.exc # "" THEN r
             ELSE LET rest == JSONWriter_write_batch(r.content, Tail(data_list),
                                                     mode, key, strict_keys)
                  IN  [rest EXCEPT !.opened = @ + r.opened]

\* TXTWriter._read_txt
read_txt(content) == IF content.kind = "lines" THEN content.doc.items ELSE <<>>

\* the read of TXTWriter.write_single and write_batch
txt_existing(content, mode) ==
    IF content.kind # "missing" /\ mode # "overwrite"
    THEN PyList(read_txt(content)) ELSE PyList(<<>>)

\* the merge and the write of TXTWriter.write_single and write_batch
txt_write(content, data, mode) ==
    LET merged == merge_flat(txt_existing(content, mode), data, mode)
    IN  IF merged.exc # "" THEN Outcome(merged.exc, content, 0)
        ELSE Outcome("", TxtText([i \in 1 .. Len(merged.v.items) |->
                                     PyStr(py_str(merged.v.items[i]))]), 1)

TXTWriter_write_single(content, data, mode) == txt_write(content, data, mode)

\* combined of TXTWriter.write_batch and CSVWriter.write_batch: a list is
\* spliced, any other item added as it is
RECURSIVE combined(_)
combined(data_list) ==
    IF data_list = <<>> THEN <<>>
    ELSE (IF Head(data_list).t = "list" THEN Head(data_list).items
          ELSE <<Head(data_list)>>) \o combined(Tail(data_list))

TXTWriter_write_batch(content, data_list, mode) ==
    txt_write(content, PyList(combined(data_list)), mode)

\* the strings of the model that hold an alphabetic character
AlphaStrings == {"a", "b", "c", "x"}

\* _is_header(row) for a row of str cells
is_header(row) == \E i \in 1 .. Len(row.items) : row.items[i].s \in AlphaStrings

\* a file that holds the rows of str cells that the csv module wrote (a file
\* of no rows has no characters)
CsvText(grid) ==
    IF grid = <<>> THEN Blank
    ELSE [kind |-> "csv",
          doc |-> PyList([i \in 1 .. Len(grid) |->
                     PyList([j \in 1 .. Len(grid[i]) |-> PyStr(grid[i][j])])])]

\* CSVWriter._read_csv: (header, rows), the header None if the first row is
\* not taken for one
read_csv(content) ==
    LET rows == IF content.kind = "csv" THEN content.doc.items ELSE <<>>
    IN  IF rows = <<>> THEN [header |-> PyNone, rows |-> <<>>]
        ELSE IF is_header(rows[1]) THEN [header |-> rows[1], rows |-> Tail(rows)]
        ELSE [header |-> PyNone, rows |-> rows]

\* the read of CSVWriter.write_single and write_batch
csv_existing(content, mode) ==
    IF content.kind # "missing" /\ mode # "overwrite" THEN read_csv(content)
    ELSE [header |-> PyNone, rows |-> <<>>]

\* the text the csv module writes for a value: nothing for None, else str()
csv_cell(v) == IF v.t = "None" THEN "" ELSE py_str(v)

\* headers of _write_csv: the existing header, then the keys of the dict rows
\* in the order of their first appearance
RECURSIVE add_keys(_, _)
add_keys(headers, keys) ==
    IF keys = <<>> THEN headers
    ELSE add_keys(IF \E i \in 1 .. Len(headers) : headers[i] = Head(keys)
                  THEN headers ELSE Append(headers, Head(keys)),
                  Tail(keys))

RECURSIVE collect_headers(_, _)
collect_headers(headers, rows) ==
    IF rows = <<>> THEN headers
    ELSE collect_headers(IF Head(rows).t = "dict"
                         THEN add_keys(headers, dict_keys(Head(rows)))
                         ELSE headers,
                         Tail(rows))

\* a header built from the new keys first, the existing header after them
headers_new_keys_first(rows, existing_header) ==
    add_keys(collect_headers(<<>>, rows),
             IF existing_header.t = "None" THEN <<>>
             ELSE [i \in 1 .. Len(existing_header.items) |-> existing_header.items[i].s])

csv_headers(rows, existing_header) ==
    collect_headers(IF existing_header.t = "None" THEN <<>>
                    ELSE [i \in 1 .. Len(existing_header.items) |->
                             existing_header.items[i].s],
                    rows)

\* the cells of a row written under headers: a dict by key, a list by
\* position (its first cell if there is one column), anything else as str()
\* in the first column
row_cells(r, headers) ==
    [i \in 1 .. Len(headers) |->
        IF r.t = "dict"
        THEN (IF dict_contains(r, headers[i]) THEN csv_cell(dict_getitem(r, headers[i]))
              ELSE "")
        ELSE IF r.t = "list"
        THEN (IF Len(headers) = 1
              THEN (IF r.items # <<>> THEN csv_cell(r.items[1]) ELSE "")
              ELSE IF i <= Len(r.items) THEN csv_cell(r.items[i]) ELSE "")
        ELSE IF i = 1 THEN py_str(r) ELSE ""]

\* CSVWriter._write_csv
write_csv(content, rows, existing_header) ==
    IF rows = <<>> THEN Outcome("", Blank, 1)
    ELSE IF \E i \in 1 .. Len(rows) : rows[i].t = "dict"
    THEN LET headers == csv_headers(rows, existing_header)
         IN  IF headers = <<>> /\ \E i \in 1 .. Len(rows) : rows[i].t \notin {"dict", "list"}
             THEN Outcome("IndexError", content, 0)
             ELSE Outcome("", CsvText(<<headers>> \o
                                 [i \in 1 .. Len(rows) |-> row_cells(rows[i], headers)]), 1)
    ELSE IF existing_header.t # "None"
    THEN LET headers == csv_headers(<<>>, existing_header)
         IN  Outcome("", CsvText(<<headers>> \o
                            [i \in 1 .. Len(rows) |-> row_cells(rows[i], headers)]), 1)
    ELSE IF \E i \in 1 .. Len(rows) : rows[i].t \in {"int", "None"}
    THEN Outcome("Error", content, 0)
    ELSE Outcome("", CsvText([i \in 1 .. Len(rows) |->
                                IF rows[i].t = "str" THEN <<rows[i].s>>
                                ELSE [j \in 1 .. Len(rows[i].items) |->
                                         csv_cell(rows[i].items[j])]]), 1)

\* the merge and the write of CSVWriter.write_single and write_batch
csv_write(content, data, mode) ==
    LET ex == csv_existing(content, mode)
        merged == merge_flat(PyList(ex.rows), data, mode)
    IN  IF merged.exc # "" THEN Outcome(merged.exc, content, 0)
        ELSE write_csv(content, merged.v.items, ex.header)

CSVWriter_write_single(content, data, mode) ==
    csv_write(content, IF data.t # "list" THEN PyList(<<data>>) ELSE data, mode)

CSVWriter_write_batch(content, data_list, mode) ==
    csv_write(content, PyList(combined(data_list)), mode)

\* the files and the arguments of the writer calls
JsonFiles == {Missing, Blank, Garbage} \cup {JsonText(d) : d \in Documents}
JsonPayloads ==
    Ints \cup {PyNone, PyList(<<PyInt(1)>>), PyDict(<<Pair("a", PyInt(MaxInt))>>),
               PyDict(<<Pair("b", PyInt(1))>>),
               PyTuple(<<PyInt(1), PyInt(MaxInt)>>), PySet(<<PyInt(1)>>)}
WriterKeys == {KeyNone} \cup {Key(p) : p \in KeyPaths}
TxtFiles ==
    {Missing, Blank, TxtText(<<PyStr("x")>>), TxtText(<<PyStr("1"), PyStr("x")>>)}
TxtPayloads ==
    {PyNone, PyInt(1), PyStr("x"), PyList(<<>>), PyList(<<PyStr("x"), PyInt(MaxInt)>>),
     PyTuple(<<PyInt(1), PyInt(MaxInt)>>), PySet(<<PyInt(1)>>),
     PyDict(<<Pair("a", PyInt(1))>>)}
CsvFiles ==
    {Missing, Blank, CsvText(<<<<"a", "b">>, <<"1", "2">>>>),
     CsvText(<<<<"1", "2">>>>), CsvText(<<<<"a">>, <<"1">>, <<"2">>>>),
     CsvText(<<<<"b", "a">>>>)}
CsvRows ==
    {PyDict(<<Pair("a", PyInt(1)), Pair("b", PyInt(2))>>),
     PyDict(<<Pair("b", PyInt(3)), Pair("c", PyInt(4))>>),
     PyDict(<<Pair("c", PyNone)>>),
     PyList(<<PyStr("3"), PyStr("4"), PyStr("x")>>),
     PyList(<<>>), PyInt(1)}
CsvPayloads ==
    CsvRows \cup {PyList(<<r>>) : r \in CsvRows}
        \cup {PyList(<<PyDict(<<Pair("c", PyInt(4))>>),
                       PyDict(<<Pair("a", PyInt(1))>>)>>),
              PyTuple(<<PyInt(1), PyInt(2)>>)}
BatchesOf(P) == UNION {[1 .. n -> P] : n \in 0 .. MaxBatch}

\* a call of a writer for the path 1: the file and the arguments
InitWriter ==
    /\ \/ \E pre \in JsonFiles, data_list \in BatchesOf(JsonPayloads),
             mode \in AllModes, key \in WriterKeys, strict_keys \in BOOLEAN :
             /\ fs = [f \in 1 .. NumFiles |-> IF f = 1 THEN pre ELSE Missing]
             /\ wcall = [NoWrite EXCEPT !.fmt = "json", !.pre = pre,
                            !.data_list = data_list, !.mode = mode, !.key = key,
                            !.strict_keys = strict_keys]
       \/ \E pre \in TxtFiles, data_list \in BatchesOf(TxtPayloads), mode \in AllModes :
             /\ fs = [f \in 1 .. NumFiles |-> IF f = 1 THEN pre ELSE Missing]
             /\ wcall = [NoWrite EXCEPT !.fmt = "txt", !.pre = pre,
                            !.data_list = data_list, !.mode = mode]
       \/ \E pre \in CsvFiles, data_list \in BatchesOf(CsvPayloads), mode \in AllModes :
             /\ fs = [f \in 1 .. NumFiles |-> IF f = 1 THEN pre ELSE Missing]
             /\ wcall = [NoWrite EXCEPT !.fmt = "csv", !.pre = pre,
                            !.data_list = data_list, !.mode = mode]
    /\ mg = NoMerge /\ wm_io = <<>> /\ ctor = NoCtor
    /\ DbIdle
    /\ HmIdle
    /\ BufIdle
    /\ WmIdle

\* the writer call made its way to the end or to an exception
Written(op, r) ==
    /\ fs' = [fs EXCEPT ![1] = r.content]
    /\ wcall' = [wcall EXCEPT !.op = op, !.exc = r.exc, !.opened = r.opened]
    /\ UNCHANGED <<mg, wm_io, ctor, hmvars, bufvars, wmvars, dbvars>>

JsonWriteSingle ==
    /\ wcall.op = "none" /\ wcall.fmt = "json" /\ wcall.data_list # <<>>
    /\ Written("write_single",
               JSONWriter_write_single(fs[1], wcall.data_list[1], wcall.mode,
                                       wcall.key, wcall.strict_keys))

JsonWriteBatch ==
    /\ wcall.op = "none" /\ wcall.fmt = "json"
    /\ Written("write_batch",
               JSONWriter_write_batch(fs[1], wcall.data_list, wcall.mode,
                                      wcall.key, wcall.strict_keys))

TxtWriteSingle ==
    /\ wcall.op = "none" /\ wcall.fmt = "txt" /\ wcall.data_list # <<>>
    /\ Written("write_single",
               TXTWriter_write_single(fs[1], wcall.data_list[1], wcall.mode))

TxtWriteBatch ==
    /\ wcall.op = "none" /\ wcall.fmt = "txt"
    /\ Written("write_batch",
               TXTWriter_write_batch(fs[1], wcall.data_list, wcall.mode))

CsvWriteSingle ==
    /\ wcall.op = "none" /\ wcall.fmt = "csv" /\ wcall.data_list # <<>>
    /\ Written("write_single",
               CSVWriter_write_single(fs[1], wcall.data_list[1], wcall.mode))

CsvWriteBatch ==
    /\ wcall.op = "none" /\ wcall.fmt = "csv"
    /\ Written("write_batch",
               CSVWriter_write_batch(fs[1], wcall.data_list, wcall.mode))

NextWriter ==
    \/ JsonWriteSingle
    \/ JsonWriteBatch
    \/ TxtWriteSingle
    \/ TxtWriteBatch
    \/ CsvWriteSingle
    \/ CsvWriteBatch

SpecWriter == InitWriter /\ [][NextWriter]_vars

(* ------------------ AsyncHistoryDump.__init__, generator.py ----------- *)
modes == {"overwrite", "append", "update", "extend"}
filetypes == {"json", "csv", "txt"}

\* _normalize_path: os.makedirs(dirname, exist_ok=True) leaves the directory
\* in existence, made or found
normalize_path(dir_exists) == TRUE

\* _validate_mode and _resolve_filetype: the exception raised, "" if none
validate_mode(mode) == IF mode \notin modes THEN "ValueError" ELSE ""
resolve_filetype(filetype, ext) ==
    IF filetype # "__autodetect__"
    THEN (IF filetype \notin filetypes THEN Raise("ValueError") ELSE Ok(PyStr(filetype)))
    ELSE IF ext = ".json" THEN Ok(PyStr("json"))
    ELSE IF ext = ".csv" THEN Ok(PyStr("csv"))
    ELSE IF ext = ".txt" THEN Ok(PyStr("txt"))
    ELSE Raise("ValueError")

\* AsyncHistoryDump.__init__ for a path with the extension ext whose parent
\* directory exists or not: the exception raised, and whether the directory
\* exists afterwards
init(c) ==
    LET dir == normalize_path(c.dir0)
    IN  IF validate_mode(c.mode) # ""
        THEN [c EXCEPT !.exc = validate_mode(c.mode), !.dir = dir]
        ELSE IF resolve_filetype(c.filetype, c.ext).exc # ""
        THEN [c EXCEPT !.exc = "ValueError", !.dir = dir]
        ELSE [c EXCEPT !.exc = "", !.dir = dir,
                       !.filetype = resolve_filetype(c.filetype, c.ext).v.s,
                       !.key = normalize_key(c.key)]

\* the arguments of a constructor call
CtorModes == modes \cup {"replace"}
CtorFiletypes == filetypes \cup {"__autodetect__", "xml"}
Extensions == {".json", ".csv", ".txt", ".log"}
CtorKeys == KeyArgs \cup {Key(<<"", "k">>), Key(<<"k", "">>)}

InitConstruct ==
    /\ \E dir0 \in BOOLEAN, mode \in CtorModes, filetype \in CtorFiletypes,
          ext \in Extensions, key \in CtorKeys :
          ctor = [NoCtor EXCEPT !.dir0 = dir0, !.dir = dir0, !.mode = mode,
                                !.filetype = filetype, !.ext = ext, !.key = key]
    /\ mg = NoMerge /\ wcall = NoWrite /\ wm_io = <<>>
    /\ DbIdle
    /\ fs = [f \in 1 .. NumFiles |-> Missing]
    /\ HmIdle
    /\ BufIdle
    /\ WmIdle

\* AsyncHistoryDump(path, mode=..., filetype=..., key=...)
Construct ==
    /\ ctor.op = "none"
    /\ ctor' = [init(ctor) EXCEPT !.op = "init"]
    /\ UNCHANGED <<mg, fs, wcall, wm_io, hmvars, bufvars, wmvars, dbvars>>

\* AsyncHistoryDumpGenerator(path, mode=..., ...).create(data): the generator
\* keeps its arguments as they are and passes them to the constructor
GeneratorCreate ==
    /\ ctor.op = "none"
    /\ ctor' = [init(ctor) EXCEPT !.op = "create"]
    /\ UNCHANGED <<mg, fs, wcall, wm_io, hmvars, bufvars, wmvars, dbvars>>

NextConstruct ==
    \/ Construct
    \/ GeneratorCreate

SpecConstruct == InitConstruct /\ [][NextConstruct]_vars

(* ------------------ write_many down to the file operations ------------ *)
\* where a write_batch call of JSONWriter is: k is the payload its
\* write_single call is for, pc the await it is suspended at or about to make
\* ("read" of the file, "open" for writing, "write" of the text), doc the
\* merged document it holds
IoStart == [pc |-> "read", k |-> 1, doc |-> PyNone]

\* the keys, the files found and the dumps of a write_many call whose dumps are
\* all for JSON files: the i-th dump carries the payload i
FileKeys == {KeyNone, Key(<<"a">>), Key(<<"b">>)}
FoundFiles == {Missing, JsonText(PyDict(<<>>))}
FileDumpArgs == [path : Files, mode : {"overwrite", "append"}, key : FileKeys]

InitFiles ==
    /\ \E n \in 1 .. MaxDumps : \E a \in [1 .. n -> FileDumpArgs] :
          wm_dumps = [i \in 1 .. n |->
                         AsyncHistoryDump(a[i].path, a[i].mode, "json",
                                          a[i].key, PyInt(i))]
    /\ wm_state = "idle" /\ wm_calls = <<>>
    /\ wm_io = [i \in 1 .. Len(write_batch_calls(wm_dumps)) |-> IoStart]
    /\ fs \in [1 .. NumFiles -> FoundFiles]
    /\ mg = NoMerge /\ wcall = NoWrite /\ ctor = NoCtor
    /\ DbIdle
    /\ HmIdle
    /\ BufIdle

\* the task of write_batch call i is scheduled and not at its end
Running(i) ==
    /\ wm_state # "idle"
    /\ i \in 1 .. Len(wm_calls)
    /\ wm_calls[i].st = "running"

\* write_single of call i for its payload k: _read_json, the strict validation and
\* the merge; an exception ends the write_batch call
WriterRead(i) ==
    /\ Running(i) /\ wm_io[i].pc = "read"
    /\ LET c == wm_calls[i]
           merged == json_merge(read_json(fs[c.path], c.key),
                                c.data_list[wm_io[i].k], c.mode, c.key,
                                c.strict_keys)
       IN  IF merged.exc # ""
           THEN /\ wm_calls' = [wm_calls EXCEPT ![i].st = "failed"]
                /\ wm_io' = [wm_io EXCEPT ![i].pc = "end"]
           ELSE /\ wm_io' = [wm_io EXCEPT ![i].pc = "open", ![i].doc = merged.v]
                /\ UNCHANGED wm_calls
    /\ UNCHANGED <<fs, wm_dumps, wm_state, mg, wcall, ctor, hmvars, bufvars, dbvars>>

\* aiofiles.open(path, "w") of call i: the file is created or truncated
WriterOpen(i) ==
    /\ Running(i) /\ wm_io[i].pc = "open"
    /\ fs' = [fs EXCEPT ![wm_calls[i].path] = Blank]
    /\ wm_io' = [wm_io EXCEPT ![i].pc = "write"]
    /\ UNCHANGED <<wm_calls, wm_dumps, wm_state, mg, wcall, ctor, hmvars, bufvars, dbvars>>

\* f.write(json.dumps(existing, indent=2)) of call i, and the step to the next
\* payload of its batch or to its end
WriterWrite(i) ==
    /\ Running(i) /\ wm_io[i].pc = "write"
    /\ LET r == json_write(fs[wm_calls[i].path], wm_io[i].doc)
           more == wm_io[i].k < Len(wm_calls[i].data_list)
       IN  /\ fs' = [fs EXCEPT ![wm_calls[i].path] = r.content]
           /\ wm_calls' = [wm_calls EXCEPT ![i].st =
                              IF r.exc # "" THEN "failed"
                              ELSE IF more THEN "running" ELSE "done"]
           /\ wm_io' = [wm_io EXCEPT ![i] =
                           IF r.exc = "" /\ more
                           THEN [pc |-> "read", k |-> wm_io[i].k + 1, doc |-> PyNone]
                           ELSE [pc |-> "end", k |-> wm_io[i].k, doc |-> PyNone]]
    /\ UNCHANGED <<wm_dumps, wm_state, mg, wcall, ctor, hmvars, bufvars, dbvars>>

NextFiles ==
    \/ WriteManyCall
    \/ \E i \in 1 .. MaxDumps : WriterRead(i)
    \/ \E i \in 1 .. MaxDumps : WriterOpen(i)
    \/ \E i \in 1 .. MaxDumps : WriterWrite(i)
    \/ GatherDone

SpecFiles == InitFiles /\ [][NextFiles]_vars

(* ------------------ write_many for the dumps of one group -------------- *)
\* the files found, and the mode and strict_keys of each dump
GroupFiles ==
    {Missing, JsonText(PyList(<<>>)), JsonText(PyDict(<<>>)),
     JsonText(PyDict(<<Pair("a", PyList(<<PyInt(MaxInt)>>))>>))}
GroupDumpArgs == [mode : {"overwrite", "append", "extend", "update"},
                  strict_keys : BOOLEAN]

\* up to MaxBatch dumps for the JSON file at path 1 that share their key; the
\* i-th dump carries the payload [i]
InitGroup ==
    /\ \E pre \in GroupFiles, key \in FileKeys, n \in 1 .. MaxBatch :
       \E a \in [1 .. n -> GroupDumpArgs] :
          /\ wm_dumps = [i \in 1 .. n |->
                            [AsyncHistoryDump(1, a[i].mode, "json", key,
                                              PyList(<<PyInt(i)>>))
                                EXCEPT !.strict_keys = a[i].strict_keys]]
          /\ fs = [f \in 1 .. NumFiles |-> IF f = 1 THEN pre ELSE Missing]
          /\ wcall = [NoWrite EXCEPT !.fmt = "json", !.pre = pre]
    /\ wm_state = "idle" /\ wm_calls = <<>>
    /\ mg = NoMerge /\ wm_io = <<>> /\ ctor = NoCtor
    /\ DbIdle
    /\ HmIdle
    /\ BufIdle

\* the write_batch coroutine of the only group runs to its end or to an
\* exception: no other task that gather started writes while it is suspended
WriterRuns ==
    /\ wm_state = "gathering"
    /\ Len(wm_calls) = 1 /\ wm_calls[1].st = "running"
    /\ LET c == wm_calls[1]
           r == JSONWriter_write_batch(fs[c.path], c.data_list, c.mode, c.key,
                                       c.strict_keys)
       IN  /\ fs' = [fs EXCEPT ![c.path] = r.content]
           /\ wm_calls' = [wm_calls EXCEPT ![1].st =
                              IF r.exc = "" THEN "done" ELSE "failed"]
    /\ UNCHANGED <<wm_dumps, wm_state, mg, wcall, wm_io, ctor, hmvars, bufvars,
                   dbvars>>

NextGroup ==
    \/ WriteManyCall
    \/ WriterRuns
    \/ GatherDone

SpecGroup == InitGroup /\ [][NextGroup]_vars

(* ------------------ CSVWriter: an overwrite, then appends -------------- *)
\* the column names of a table, some of them without an alphabetic character
Columns == {<<"a">>, <<"a", "b">>, <<"1">>, <<"1", "2">>, <<"a", "1">>}

\* mapping rows with the keys cols: one value in every column, or the
\* number of the column in each
TableRows(cols) ==
    {PyDict([i \in 1 .. Len(cols) |-> Pair(cols[i], PyInt(n))]) : n \in 1 .. MaxInt}
        \cup {PyDict([i \in 1 .. Len(cols) |-> Pair(cols[i], PyInt(i))])}

\* the payloads of one call: a row, or a list of rows
TablePayloads(cols) ==
    TableRows(cols) \cup {PyList(<<r1, r2>>) : r1, r2 \in TableRows(cols)}

\* a file that may be there before the overwrite
InitTable ==
    /\ \E pre \in {Missing, CsvText(<<<<"a", "b">>, <<"1", "2">>>>)} :
          fs = [f \in 1 .. NumFiles |-> IF f = 1 THEN pre ELSE Missing]
    /\ tbl = NoTbl
    /\ reg = NoReg /\ mgr = NoMgr /\ tx = NoTx
    /\ IoIdle
    /\ HmIdle
    /\ BufIdle
    /\ WmIdle

\* a call of write_single or of write_batch with one payload has ended
TableWritten(r, data) ==
    /\ fs' = [fs EXCEPT ![1] = r.content]
    /\ tbl' = [tbl EXCEPT !.op = IF tbl.calls = 0 THEN "overwrite" ELSE "append",
                          !.calls = @ + 1,
                          !.exc = r.exc,
                          !.rows = @ \o (IF data.t = "list" THEN data.items
                                         ELSE <<data>>)]
    /\ UNCHANGED <<mg, wcall, wm_io, ctor, reg, mgr, tx, hmvars, bufvars, wmvars>>

TableOverwrite ==
    /\ tbl.calls = 0
    /\ \E cols \in Columns : \E data \in TablePayloads(cols) :
          \/ TableWritten(CSVWriter_write_single(fs[1], data, "overwrite"), data)
          \/ TableWritten(CSVWriter_write_batch(fs[1], <<data>>, "overwrite"), data)

TableAppend ==
    /\ tbl.calls \in 1 .. MaxCalls - 1
    /\ tbl.exc = ""
    /\ \E data \in TablePayloads(dict_keys(tbl.rows[1])) :
          \/ TableWritten(CSVWriter_write_single(fs[1], data, "append"), data)
          \/ TableWritten(CSVWriter_write_batch(fs[1], <<data>>, "append"), data)

NextTable ==
    \/ TableOverwrite
    \/ TableAppend

SpecTable == InitTable /\ [][NextTable]_vars

(* ------------------------- claims: the buffer ------------------------- *)
\* the last call was an append on a buffer that was constructed
AppendCalled == ~cl.none /\ last.op = "append"

\* C1: on a buffer configured with capacity N and finite tolerance T,
\* append raises OverflowError if and only if the length before the call is
\* greater than N + T; with unlimited tolerance (None) append never raises.
C1_AppendRaisesIffPastTolerance ==
    AppendCalled =>
        IF cfg.T = None THEN ~last.raised
        ELSE (last.raised <=> Len(last.pre) > cfg.N + cfg.T)

\* C1, a failing case: a buffer built with capacity 2 and tolerance 1 that
\* holds three items (2 + 1, so within tolerance) is asked to append a fourth
C1_WithinToleranceCase ==
    /\ AppendCalled
    /\ cfg.N = 2 /\ cfg.T = 1
    /\ Len(last.pre) = 3

\* C10: an append that does not reject puts the item last and returns Full
\* exactly when the length after it is >= the configured capacity N (None
\* otherwise); the full property is true exactly when len >= N.
C10_AppendSignalsFullAtCapacity ==
    /\ (AppendCalled /\ ~last.raised) =>
            /\ cl.items = Append(last.pre, last.arg)
            /\ (last.ret <=> Len(cl.items) >= cfg.N)
    /\ ~cl.none => (full(cl) <=> Len(cl.items) >= cfg.N)

\* C10, a failing case: a first item goes into a buffer of capacity 2
C10_BelowCapacityCase ==
    /\ AppendCalled /\ ~last.raised
    /\ cfg.N = 2
    /\ Len(cl.items) = 1

\* C11: with finite tolerance T, a buffer filled by append only (and not
\* reconfigured) never holds more than N + T items: an append raises
\* OverflowError exactly when it would take the length past N + T, that is
\* when the length before it is N + T or more.
C11_NeverPastTolerance ==
    (~cl.none /\ cfg.plain /\ cfg.T # None) =>
        /\ Len(cl.items) <= cfg.N + cfg.T
        /\ AppendCalled => (last.raised <=> Len(last.pre) >= cfg.N + cfg.T)

\* C11, a failing case: a buffer built with capacity 1 and tolerance 1 holds
\* two items (1 + 1) and is asked to append a third
C11_AppendAtToleranceCase ==
    /\ AppendCalled /\ cfg.plain
    /\ cfg.N = 1 /\ cfg.T = 1
    /\ Len(last.pre) = 2

\* C12: capacity 0 is a valid configuration: the constructor does not raise
\* for it, and the first append into such a buffer returns Full.
C12_ZeroCapacityIsValid ==
    cfg.N = 0 =>
        /\ ~cfg.err
        /\ (AppendCalled /\ last.pre = <<>>) => (~last.raised /\ last.ret)

\* C12, a failing case: the constructor was called with capacity 0 and a
\* valid tolerance
C12_ZeroCapacityCase == cfg.N = 0 /\ cfg.T \in {1, None}

\* C13: flush returns all items the buffer held, in insertion order, and
\* leaves the buffer empty, whatever it held (nothing included).
C13_FlushReturnsAllInOrder ==
    (~cl.none /\ last.op = "flush") =>
        /\ last.out = last.pre
        /\ cl.items = <<>>

\* C13, its case: a flush of a buffer that held two different items
C13_FlushedTwoDifferent ==
    /\ last.op = "flush"
    /\ Len(last.pre) >= 2 /\ last.pre[1] # last.pre[2]

\* C14: extract with no selectors does what flush does on the same buffer:
\* it returns all items in order and leaves the buffer empty.
C14_ExtractNothingIsFlush ==
    (~cl.none /\ last.op = "extract" /\ last.sel = <<>>) =>
        LET f == flush([cl EXCEPT !.items = last.pre])
        IN  /\ ~last.raised
            /\ last.out = f.out
            /\ cl = f.list

\* C14, a failing case: extract() on a buffer that holds items
C14_ExtractNothingFromFilled ==
    /\ last.op = "extract" /\ last.sel = <<>>
    /\ last.pre # <<>>

\* the indices the selectors name: an index, or the members of an inclusive range
Named(sels) ==
    {i \in -1 .. MaxIndex :
        \E k \in 1 .. Len(sels) : sels[k].start <= i /\ i <= sels[k].end}

\* the k-th smallest member of a set of indices
Kth(S, k) == CHOOSE i \in S : Cardinality({j \in S : j < i}) = k - 1

\* the items of q at the (0-based) positions in S, in ascending position order
Pick(q, S) == [k \in 1 .. Cardinality(S) |-> q[Kth(S, k) + 1]]

\* C15: if a selector of extract names an index outside 0 .. len-1, extract
\* raises and removes nothing, also when other selectors are valid; otherwise
\* every named item is removed once, the result is in ascending index order,
\* and the remaining items keep their order.
C15_ExtractAllOrNothing ==
    (~cl.none /\ last.op = "extract") =>
        LET named == Named(last.sel)
            all == 0 .. Len(last.pre) - 1
        IN  IF \E i \in named : i \notin all
            THEN last.raised /\ cl.items = last.pre
            ELSE /\ ~last.raised
                 /\ last.out = Pick(last.pre, named)
                 /\ cl.items = Pick(last.pre, all \ named)

\* C15, its case: one selector names an item of the buffer, another one an
\* index past its end
C15_ValidAndOutOfRange ==
    /\ last.op = "extract" /\ last.raised
    /\ \E k \in 1 .. Len(last.sel) : last.sel[k] = Index(0)
    /\ \E k \in 1 .. Len(last.sel) : last.sel[k].end >= Len(last.pre)
    /\ last.pre # <<>>

\* C16: extend checks the overflow once, against the length before the call:
\* past N + T it raises and inserts nothing; otherwise it inserts all items in
\* order and returns Full exactly when the resulting length is >= N.
C16_ExtendChecksOnce ==
    (~cl.none /\ last.op = "extend") =>
        IF cfg.T # None /\ Len(last.pre) > cfg.N + cfg.T
        THEN last.raised /\ cl.items = last.pre
        ELSE /\ ~last.raised
             /\ cl.items = last.pre \o last.xs
             /\ (last.ret <=> Len(cl.items) >= cfg.N)

\* C16, a failing case: one item is put by extend into an empty buffer of
\* capacity 2
C16_ExtendBelowCapacity ==
    /\ last.op = "extend" /\ ~last.raised
    /\ cfg.N = 2
    /\ last.pre = <<>> /\ Len(last.xs) = 1

(* ----------------------- claims: the coordinator ---------------------- *)
\* the jobs of a sequence
Range(q) == {q[i] : i \in 1 .. Len(q)}

\* the buffer holds nothing (or there is no buffer)
BufferEmpty == history.none \/ history.items = <<>>

ReturnedNormally(c) == c.st \in {"noop", "returned"}

\* C2: with a generator registered and the capacity not disabled, an append
\* that returns normally has built one job and inserted it into the buffer,
\* whether the buffer was empty (idle) or not (accumulating) when it was called.
C2_AppendBuildsAndInserts ==
    (done.op = "append" /\ done.gen0 /\ done.on0 /\ ReturnedNormally(done))
        => (done.job # 0 /\ done.ins)

\* C3: when the insert of an append returns Full, the same call drains the
\* whole buffer and hands exactly the drained jobs, in insertion order, to
\* write_many while it holds the lock; so when an inserting append returns
\* normally the buffer is empty or below capacity (unless another caller put
\* items into the buffer directly while the dispatch was suspended).
C3_FullInsertFlushesUnderLock ==
    /\ \A t \in Tasks :
          (task[t].op = "append" /\ task[t].st = "dispatching") =>
              /\ task[t].ins /\ task[t].sig /\ task[t].had
              /\ task[t].dumps = task[t].pre
              /\ lock = t
              /\ (~task[t].ext => BufferEmpty)
    /\ (done.op = "append" /\ done.ins /\ done.sig) =>
          (done.had /\ done.dumps = done.pre)
    /\ (done.op = "append" /\ done.ins /\ done.st = "returned" /\ ~done.ext) =>
          (BufferEmpty \/ Len(history.items) < history.max_length)

\* C3, its case: an append inserted into a buffer that already held a job,
\* the insert returned Full, and the call returned after its dispatch
C3_FlushedAndReturned ==
    /\ done.op = "append" /\ done.ins /\ done.sig /\ done.st = "returned"
    /\ Len(done.dumps) >= 2

\* C4: at most one flush (drain + dispatch) is in flight per HistoryManager
\* at any time.
C4_AtMostOneFlushInFlight ==
    Cardinality({t \in Tasks : task[t].st = "dispatching"}) <= 1

\* task t inserts, in this step, the job this step creates
InsertsNow(t) ==
    \/ task'[t].op = "append" /\ task'[t].ins /\ task'[t].job = nextJob
         /\ nextJob' = nextJob + 1 /\ task[t].st # "dispatching"
    \/ done'.op = "append" /\ done'.t = t /\ done'.ins /\ done'.job = nextJob
         /\ nextJob' = nextJob + 1 /\ task[t].st # "dispatching"

\* C5: the lock serializes append's insert and flush: an append inserts only
\* in the step in which it acquires the lock, which no task holds then (not
\* even one suspended in a slow flush), and it acquires it in FIFO order, so
\* jobs enter the buffer, at its tail, in the order of lock acquisition.
C5_AppendsSerialized ==
    [][\A t \in Tasks :
          InsertsNow(t) =>
              /\ lock = 0
              /\ (waiters = <<>> \/ Head(waiters) = t)
              /\ (lock' = t \/ lock' = 0)
              /\ \E c \in {task'[t], done'} :
                    c.pre = Append(history.items, nextJob)]_vars

\* C5, its case: an append waits for the lock that another append holds
\* while that one's flush is suspended in write_many
C5_AppendWaitsForFlushingAppend ==
    \E t, h \in Tasks :
        /\ task[t].st = "waiting"
        /\ lock = h
        /\ task[h].op = "append" /\ task[h].st = "dispatching"

\* C6: no job is handed to write_many by more than one flush, and a job that
\* a flush drained is not in the buffer again, also after its dispatch failed.
C6_DrainedOnceNeverRequeued ==
    /\ \A j \in Jobs : sent[j] <= 1
    /\ \A j \in Range(history.items) : sent[j] = 0

\* C6, its case: a dispatch failed and the buffer holds jobs again
C6_FailedDispatchThenRefilled ==
    /\ done.derr /\ done.dumps # <<>>
    /\ history.items # <<>>

\* C7: when write_many raises during a flush that an append triggered, the
\* append raises, the lock is released, and none of the drained jobs is back
\* in the buffer.
C7_DispatchFailurePropagates ==
    (done.op = "append" /\ done.derr) =>
        /\ done.st = "raised"
        /\ lock = 0
        /\ Range(done.dumps) \cap Range(history.items) = {}

\* C7, its case: the dispatch of an append's flush failed while another
\* append was waiting for the lock
C7_FailedWhileAnotherWaits ==
    /\ done.op = "append" /\ done.derr
    /\ waiters # <<>>

\* C9: when capture is disabled (no generator, or no capacity) at the call,
\* append is a no-op: it creates no job, leaves the buffer, the lock and the
\* hand-over record as they were, dispatches nothing and does not raise.
C9_DisabledAppendIsNoOp ==
    [][(done'.op = "append" /\ (~done'.gen0 \/ ~done'.on0)) =>
          /\ done'.st = "noop"
          /\ done'.job = 0 /\ ~done'.ins /\ ~done'.had
          /\ UNCHANGED <<history, sent, nextJob, lock, waiters>>]_vars

\* C9, its case: an append without a generator on a buffer that holds a job
C9_NoGeneratorAppend ==
    /\ done.op = "append" /\ ~done.gen0 /\ done.on0
    /\ history.items # <<>>

\* C9, its other case: an append with a generator but no capacity
C9_NoCapacityAppend ==
    /\ done.op = "append" /\ done.gen0 /\ ~done.on0

\* C17: setting history_length to a smaller non-negative value removes no
\* item from the buffer and keeps their order, and the fullness checks after
\* the change use the new capacity.
C17_LoweringCapacityKeepsItems ==
    [][(/\ ~history.none
        /\ history_length # None /\ history_length' # None
        /\ history_length' < history_length) =>
            /\ ~history'.none
            /\ history'.items = history.items
            /\ (full(history') <=> Len(history'.items) >= history_length')]_vars

\* C17, a failing case: history_length is 0 next to a buffer that holds
\* items (no constructor accepts a capacity of 0, so it was lowered to 0 by
\* the setter)
C17_LoweredToZeroWithItems ==
    /\ ~history.none /\ history.items # <<>>
    /\ history_length = 0

\* C18: setting history_length to None discards the buffer with all its
\* unflushed jobs and dispatches none of them; while the capacity is disabled
\* append and flush_to_file do nothing; re-enabling it yields a new, empty
\* buffer, and a job only ever enters a buffer as the newly created one, so
\* the discarded jobs never reappear.
C18_DisablingDiscardsBuffer ==
    [][/\ history_length' = None => history'.none
       /\ (~history.none /\ history'.none) =>
              UNCHANGED <<sent, task, lock, waiters, nextJob>>
       /\ (done'.op \in {"append", "flush"} /\ ~done'.on0) =>
              /\ done'.st \in {"noop", "returned"}
              /\ ~done'.ins /\ ~done'.had /\ done'.job = 0
              /\ UNCHANGED <<history, sent, nextJob>>
       /\ (history.none /\ ~history'.none) => history'.items = <<>>
       /\ Range(history'.items) \subseteq Range(history.items) \cup {nextJob}]_vars

\* C18, its case: the first job, which entered the buffer and was handed to
\* no flush, is gone with the buffer, and capacity is enabled again
C18_ReenabledAfterDiscard ==
    /\ nextJob > 1 /\ sent[1] = 0
    /\ \A t \in Tasks : ~InCall(t)
    /\ ~history.none /\ history.items = <<>>

(* ------------------------- claims: the dispatch ----------------------- *)
\* the (destination, format, key) of a dump or of a write_batch call
Triple(x) == <<x.path, x.filetype, x.key>>

\* C19: write_many partitions the dumps by (destination, format, key): it
\* makes exactly one write_batch call per distinct triple, every dump's
\* payload is in exactly one call, the one of its triple, and the payloads of
\* a call are in the dumps' submission order.
C19_OneBatchPerTriple ==
    wm_state # "idle" =>
        /\ Len(wm_calls) = Cardinality({Triple(wm_dumps[d]) : d \in 1 .. Len(wm_dumps)})
        /\ \A i, j \in 1 .. Len(wm_calls) :
              i # j => Triple(wm_calls[i]) # Triple(wm_calls[j])
        /\ \A d \in 1 .. Len(wm_dumps) :
              \E i \in 1 .. Len(wm_calls) :
                  /\ Triple(wm_calls[i]) = Triple(wm_dumps[d])
                  /\ \E k \in 1 .. Len(wm_calls[i].data_list) :
                        wm_calls[i].data_list[k] = wm_dumps[d].data
        /\ \A i \in 1 .. Len(wm_calls) :
              LET dl == wm_calls[i].data_list
              IN  /\ dl # <<>>
                  /\ \A k \in 1 .. Len(dl) :
                        /\ dl[k] \in 1 .. Len(wm_dumps)
                        /\ Triple(wm_dumps[dl[k]]) = Triple(wm_calls[i])
                        /\ k > 1 => dl[k - 1] < dl[k]

\* C19, its case: the first and the third dump share a triple that the second
\* differs from in its key only
C19_InterleavedGroups ==
    /\ wm_state # "idle" /\ Len(wm_dumps) = 3
    /\ Triple(wm_dumps[1]) = Triple(wm_dumps[3])
    /\ wm_dumps[2].path = wm_dumps[1].path
    /\ wm_dumps[2].filetype = wm_dumps[1].filetype
    /\ wm_dumps[2].key # wm_dumps[1].key

\* C20: write_many returns, normally or by raising, only after every group's
\* writer call has completed or failed: no writer is still running then.
C20_ReturnsAfterAllWriters ==
    wm_state \in {"returned", "raised"} =>
        \A i \in 1 .. Len(wm_calls) : wm_calls[i].st # "running"

\* C20, a failing case: write_many raised what one writer raised while the
\* writer of another group is still running
C20_RaisedWhileWriting ==
    /\ wm_state = "raised"
    /\ \E i \in 1 .. Len(wm_calls) : wm_calls[i].st = "running"

(* ------------------------- claims: the manager ------------------------ *)
FlushOps == {"flush", "shutdown"}

\* C8: flush_to_file on an enabled coordinator whose buffer holds k >= 0 jobs
\* (full or not) hands exactly those jobs, in order, to write_many and leaves
\* the buffer empty; on a disabled coordinator it does nothing.  shutdown
\* flushes after all connections of its snapshot were closed, and when it
\* returns normally no job accumulated before remains in the buffer.
C8_FlushDrainsAll ==
    /\ \A c \in {task[t] : t \in Tasks} \cup {done} :
          (c.op \in FlushOps /\ c.st \in {"dispatching", "returned"}) =>
              /\ c.left = {}
              /\ c.had = ~history.none
              /\ c.dumps = c.pre
              /\ (~c.ext => BufferEmpty)
    /\ (done.op = "flush" /\ history.none) => (done.st = "returned" /\ ~done.had)

\* C8, its case: shutdown closed a connection, flushed a buffer that held a
\* job, and returned
C8_ShutdownFlushed ==
    /\ done.op = "shutdown" /\ done.st = "returned"
    /\ done.dumps # <<>>

(* ------------------------- claims: the merge algebra ------------------ *)
\* normalize of the specification: null is the empty sequence, a sequence or
\* a set its elements, any other value a sequence of one element
normalize(v) ==
    IF v.t = "None" THEN <<>>
    ELSE IF v.t \in {"list", "tuple", "set"} THEN v.items
    ELSE <<v>>

\* C25: flat merge: merge_flat(existing, new, overwrite) is normalize(new),
\* merge_flat(existing, new, m) for m in {append, extend, update} is
\* normalize(existing) followed by normalize(new), and any other mode raises.
C25_FlatMerge ==
    mg.op = "merge_flat" =>
        /\ mg.mode = "overwrite" => mg.out = Ok(PyList(normalize(mg.data)))
        /\ mg.mode \in {"append", "extend", "update"} =>
              mg.out = Ok(PyList(normalize(mg.existing) \o normalize(mg.data)))
        /\ mg.mode \notin {"overwrite", "append", "extend", "update"} =>
              mg.out.exc # ""

\* C25, its case: a set of one element was merged with a scalar in update mode
C25_SetThenScalar ==
    /\ mg.op = "merge_flat" /\ mg.mode = "update"
    /\ mg.existing.t = "set" /\ mg.data.t = "int"
    /\ Len(mg.out.v.items) = 2

\* the key path leads through mappings to a slot the document has
RECURSIVE Present(_, _)
Present(doc, key) ==
    \/ key = <<>>
    \/ /\ doc.t = "dict" /\ dict_contains(doc, Head(key))
       /\ Present(dict_getitem(doc, Head(key)), Tail(key))

\* the value at a key path that is present
RECURSIVE Lookup(_, _)
Lookup(doc, key) ==
    IF key = <<>> THEN doc ELSE Lookup(dict_getitem(doc, Head(key)), Tail(key))

\* res is the key-union of the mappings old and new in which new wins
IsUnion(old, new, res) ==
    /\ res.t = "dict"
    /\ {res.items[i].k : i \in 1 .. Len(res.items)}
          = {old.items[i].k : i \in 1 .. Len(old.items)}
               \cup {new.items[i].k : i \in 1 .. Len(new.items)}
    /\ Cardinality({res.items[i].k : i \in 1 .. Len(res.items)}) = Len(res.items)
    /\ \A i \in 1 .. Len(res.items) :
          res.items[i].v = IF dict_contains(new, res.items[i].k)
                           THEN dict_getitem(new, res.items[i].k)
                           ELSE dict_getitem(old, res.items[i].k)

\* C26: appending a mapping payload onto an existing mapping, at the root of
\* the document or at a nested slot, gives the shallow key-union in which the
\* payload's values win and all other existing keys are kept; the target
\* stays a mapping and is not wrapped into a list.
C26_AppendMappingIsUnion ==
    /\ (/\ mg.op = "apply_mode_json" /\ mg.mode = "append"
        /\ mg.existing.t = "dict" /\ mg.data.t = "dict") =>
           /\ mg.out.exc = ""
           /\ IsUnion(mg.existing, mg.data, mg.out.v)
    /\ (/\ mg.op = "write_nested" /\ mg.mode = "append" /\ mg.data.t = "dict"
        /\ Present(mg.existing, mg.key)
        /\ Lookup(mg.existing, mg.key).t = "dict") =>
           /\ mg.out.exc = ""
           /\ Present(mg.out.v, mg.key)
           /\ IsUnion(Lookup(mg.existing, mg.key), mg.data, Lookup(mg.out.v, mg.key))

\* C26, its case: the nested slot is a mapping with two keys, and the payload
\* has another value for one of them
C26_NestedConflict ==
    /\ mg.op = "write_nested" /\ mg.mode = "append" /\ mg.data.t = "dict"
    /\ Present(mg.existing, mg.key)
    /\ Lookup(mg.existing, mg.key).t = "dict"
    /\ Len(Lookup(mg.existing, mg.key).items) = 2
    /\ \E k \in KeyNames :
          /\ dict_contains(mg.data, k)
          /\ dict_contains(Lookup(mg.existing, mg.key), k)
          /\ dict_getitem(mg.data, k) # dict_getitem(Lookup(mg.existing, mg.key), k)
    /\ mg.out.exc = ""

\* C27: a non-strict nested write into a mapping document whose key path is
\* absent creates the missing intermediate mappings; append stores the
\* singleton list [payload] at the slot, extend/update store the payload
\* itself; overwrite sets the slot to the payload whatever it held.
C27_AbsentSlot ==
    (/\ mg.op = "write_nested" /\ mg.create /\ mg.existing.t = "dict"
     /\ mg.mode \in {"overwrite", "append", "extend", "update"}
     /\ (~Present(mg.existing, mg.key) \/ mg.mode = "overwrite")) =>
        /\ mg.out.exc = ""
        /\ Present(mg.out.v, mg.key)
        /\ \A n \in 0 .. Len(mg.key) - 1 :
              Lookup(mg.out.v, SubSeq(mg.key, 1, n)).t = "dict"
        /\ mg.mode = "append" =>
              Lookup(mg.out.v, mg.key) = PyList(<<mg.data>>)
        /\ mg.mode \in {"overwrite", "extend", "update"} =>
              Lookup(mg.out.v, mg.key) = mg.data

\* C27, its case: extend of a list onto a slot whose parent mapping is absent
\* too
C27_ExtendCreatesParents ==
    /\ mg.op = "write_nested" /\ mg.create /\ mg.existing.t = "dict"
    /\ mg.mode = "extend" /\ mg.data.t = "list" /\ mg.data.items # <<>>
    /\ Len(mg.key) = 2
    /\ ~dict_contains(mg.existing, mg.key[1])
    /\ mg.existing.items # <<>>

(* ------------------------- claims: the writers ------------------------ *)
\* the last call was a write of at least one payload in the given format
Wrote(fmt) ==
    /\ wcall.fmt = fmt
    /\ \/ wcall.op = "write_single"
       \/ wcall.op = "write_batch" /\ wcall.data_list # <<>>

\* the document a strict write finds in the file
FoundDocument ==
    IF wcall.pre.kind = "json" THEN wcall.pre.doc ELSE PyDict(<<>>)

\* C22: with strict_keys set and a key path given, a write whose key path has
\* an absent segment or passes through a value that is not a mapping raises
\* before the file is written: the file holds what it held, is not created if
\* it did not exist, and was never opened for writing.
C22_StrictFailureWritesNothing ==
    (/\ Wrote("json") /\ wcall.strict_keys /\ ~wcall.key.none
     /\ ~Present(FoundDocument, wcall.key.parts)) =>
        /\ wcall.exc # ""
        /\ fs[1] = wcall.pre
        /\ wcall.opened = 0

\* C22, its case: a strict overwrite whose parent segment is present and whose
\* last segment is absent, on a document that is a mapping
C22_LastSegmentAbsent ==
    /\ Wrote("json") /\ wcall.strict_keys /\ ~wcall.key.none
    /\ wcall.op = "write_single" /\ wcall.mode = "overwrite"
    /\ Len(wcall.key.parts) = 2
    /\ wcall.pre.kind = "json"
    /\ Present(wcall.pre.doc, AllButLast(wcall.key.parts))
    /\ Lookup(wcall.pre.doc, AllButLast(wcall.key.parts)).t = "dict"
    /\ ~Present(wcall.pre.doc, wcall.key.parts)
    /\ wcall.exc = "KeyError"

\* the outcome of the first n payloads of the call written by one
\* write_single call each, one after the other
RECURSIVE SinglesUpTo(_)
SinglesUpTo(n) ==
    IF n = 0 THEN Outcome("", wcall.pre, 0)
    ELSE LET before == SinglesUpTo(n - 1)
         IN  IF before.exc # "" THEN before
             ELSE JSONWriter_write_single(before.content, wcall.data_list[n],
                                          wcall.mode, wcall.key, wcall.strict_keys)

\* C23: for the JSON format, write_batch(path, [p1..pN], mode, key) leaves the
\* file as N write_single calls with p1..pN in that order and the same mode
\* and key leave it (and raises what they raise); N append payloads onto a
\* list add one element each, in order.
C23_JsonBatchIsSingles ==
    (wcall.fmt = "json" /\ wcall.op = "write_batch") =>
        /\ fs[1] = SinglesUpTo(Len(wcall.data_list)).content
        /\ wcall.exc = SinglesUpTo(Len(wcall.data_list)).exc
        /\ (/\ wcall.mode = "append" /\ wcall.key.none /\ wcall.exc = ""
            /\ wcall.pre.kind = "json" /\ wcall.pre.doc.t = "list") =>
               /\ fs[1].kind = "json" /\ fs[1].doc.t = "list"
               /\ Len(fs[1].doc.items)
                     = Len(wcall.pre.doc.items) + Len(wcall.data_list)
               /\ \A i \in 1 .. Len(wcall.pre.doc.items) :
                     fs[1].doc.items[i] = wcall.pre.doc.items[i]
               /\ \A i \in 1 .. Len(wcall.data_list) :
                     fs[1].doc.items[Len(wcall.pre.doc.items) + i]
                         = json_dumps(wcall.data_list[i]).v

\* C23, its case: two different payloads appended to a list of one element
C23_TwoAppendedToList ==
    /\ wcall.fmt = "json" /\ wcall.op = "write_batch"
    /\ wcall.mode = "append" /\ wcall.key.none /\ wcall.exc = ""
    /\ wcall.pre.kind = "json" /\ wcall.pre.doc.t = "list"
    /\ Len(wcall.pre.doc.items) = 1
    /\ Len(wcall.data_list) = 2 /\ wcall.data_list[1] # wcall.data_list[2]

\* the batch as one sequence: an ordered sequence is spliced element by
\* element, any other payload is one row
RECURSIVE Spliced(_)
Spliced(data_list) ==
    IF data_list = <<>> THEN <<>>
    ELSE (IF Head(data_list).t \in {"list", "tuple"} THEN Head(data_list).items
          ELSE <<Head(data_list)>>) \o Spliced(Tail(data_list))

\* C24: for the line and table formats, write_batch flattens the batch into
\* one sequence (a non-sequence payload is one row, an ordered sequence is
\* spliced element by element, in submission order) and does one merge and
\* one file write; in overwrite mode the file holds the rows of all payloads.
C24_FlatBatchMergesOnce ==
    (wcall.op = "write_batch" /\ wcall.fmt \in {"txt", "csv"}) =>
        LET one == IF wcall.fmt = "txt"
                   THEN txt_write(wcall.pre, PyList(Spliced(wcall.data_list)),
                                  wcall.mode)
                   ELSE csv_write(wcall.pre, PyList(Spliced(wcall.data_list)),
                                  wcall.mode)
        IN  /\ fs[1] = one.content
            /\ wcall.exc = one.exc
            /\ wcall.opened = one.opened
            /\ wcall.opened <= 1

\* C24, a failing case: a tuple in a batch for a text file
C24_TupleInTxtBatch ==
    /\ wcall.op = "write_batch" /\ wcall.fmt = "txt" /\ wcall.mode = "overwrite"
    /\ \E i \in 1 .. Len(wcall.data_list) :
          wcall.data_list[i].t = "tuple" /\ Len(wcall.data_list[i].items) = 2
    /\ wcall.exc = ""
    /\ Len(fs[1].doc.items) < Len(Spliced(wcall.data_list))

\* the rows a table write merges: those it reads from the file, unless it
\* overwrites, then the incoming ones; and the header it reads
ReadRows ==
    IF wcall.mode = "overwrite" \/ wcall.pre.kind # "csv" THEN <<>>
    ELSE IF is_header(wcall.pre.doc.items[1]) THEN Tail(wcall.pre.doc.items)
    ELSE wcall.pre.doc.items
ReadHeader ==
    IF wcall.mode = "overwrite" \/ wcall.pre.kind # "csv" THEN <<>>
    ELSE IF is_header(wcall.pre.doc.items[1])
    THEN [i \in 1 .. Len(wcall.pre.doc.items[1].items) |->
             wcall.pre.doc.items[1].items[i].s]
    ELSE <<>>
Incoming ==
    IF wcall.op = "write_batch" THEN combined(wcall.data_list)
    ELSE IF wcall.data_list[1].t = "list" THEN wcall.data_list[1].items
    ELSE <<wcall.data_list[1]>>
MergedRows == ReadRows \o Incoming

\* where the key k appears first among the merged rows: row and position
FirstAt(k) ==
    LET row == CHOOSE i \in 1 .. Len(MergedRows) :
                   /\ MergedRows[i].t = "dict" /\ dict_contains(MergedRows[i], k)
                   /\ \A j \in 1 .. i - 1 :
                         ~(MergedRows[j].t = "dict" /\ dict_contains(MergedRows[j], k))
        pos == CHOOSE p \in 1 .. Len(MergedRows[row].items) :
                   MergedRows[row].items[p].k = k
    IN  row * 100 + pos

\* C28: on a table write where a merged row is a mapping, the written header
\* is the header read from the file followed by each new key in the order of
\* first appearance across the rows, and every row, the existing ones first,
\* is written under this header, by key (mappings) or by position (lists),
\* with the empty string for the columns it lacks.
C28_HeaderIsOrderedUnion ==
    (/\ Wrote("csv") /\ wcall.exc = ""
     /\ wcall.mode \in {"overwrite", "append", "extend", "update"}
     /\ \E i \in 1 .. Len(MergedRows) : MergedRows[i].t = "dict") =>
        LET grid == fs[1].doc.items
            header == [i \in 1 .. Len(grid[1].items) |-> grid[1].items[i].s]
            n == Len(ReadHeader)
        IN  /\ fs[1].kind = "csv"
            /\ Len(grid) = 1 + Len(MergedRows)
            /\ SubSeq(header, 1, n) = ReadHeader
            /\ \A i, j \in 1 .. Len(header) : i # j => header[i] # header[j]
            /\ \A i \in 1 .. Len(MergedRows) :
                  MergedRows[i].t = "dict" =>
                      \A p \in 1 .. Len(MergedRows[i].items) :
                          \E c \in 1 .. Len(header) :
                              header[c] = MergedRows[i].items[p].k
            /\ \A i \in n + 1 .. Len(header) :
                  /\ \E r \in 1 .. Len(MergedRows) :
                        MergedRows[r].t = "dict" /\ dict_contains(MergedRows[r], header[i])
                  /\ \A j \in i + 1 .. Len(header) :
                        FirstAt(header[i]) < FirstAt(header[j])
            /\ \A i \in 1 .. Len(MergedRows) :
                  /\ Len(grid[i + 1].items) = Len(header)
                  /\ \A c \in 1 .. Len(header) :
                        LET r == MergedRows[i]
                            cell == grid[i + 1].items[c].s
                        IN  /\ r.t = "dict" =>
                                  cell = IF dict_contains(r, header[c])
                                         THEN csv_cell(dict_getitem(r, header[c]))
                                         ELSE ""
                            /\ r.t = "list" =>
                                  cell = IF c <= Len(r.items)
                                         THEN csv_cell(r.items[c]) ELSE ""

\* C28, its case: {b: 3, c: 4} appended to a file with the header a,b and the
\* row 1,2
C28_AppendNewColumn ==
    /\ wcall.fmt = "csv" /\ wcall.op = "write_single" /\ wcall.mode = "append"
    /\ wcall.pre = CsvText(<<<<"a", "b">>, <<"1", "2">>>>)
    /\ fs[1] = CsvText(<<<<"a", "b", "c">>, <<"1", "2", "">>, <<"", "3", "4">>>>)

\* the empty document of a JSON write
EmptyDocument == IF wcall.key.none THEN PyList(<<>>) ELSE PyDict(<<>>)

\* C29: a missing file is taken as the empty document (the empty mapping if
\* a key is given, else the empty list, for JSON; no rows or lines for the
\* flat formats), and so is a JSON file whose content cannot be parsed: the
\* read does not raise, the write succeeds wherever the merge of the payload
\* into the empty document is defined, and the file then holds that merge
\* only.
C29_MissingOrUnparseableIsEmpty ==
    /\ (/\ wcall.fmt = "json" /\ wcall.op = "write_single"
        /\ wcall.pre.kind \in {"missing", "garbage", "blank"}) =>
           LET merged == json_merge(EmptyDocument, wcall.data_list[1], wcall.mode,
                                    wcall.key, wcall.strict_keys)
           IN  /\ merged.exc # "" => (wcall.exc = merged.exc /\ fs[1] = wcall.pre)
               /\ (merged.exc = "" /\ json_dumps(merged.v).exc = "") =>
                     (wcall.exc = "" /\ fs[1] = JsonText(json_dumps(merged.v).v))
    /\ (/\ wcall.fmt = "txt" /\ wcall.op = "write_single"
        /\ wcall.pre.kind = "missing"
        /\ wcall.mode \in {"overwrite", "append", "extend", "update"}) =>
           /\ wcall.exc = ""
           /\ fs[1] = TxtText([i \in 1 .. Len(normalize(wcall.data_list[1])) |->
                                  PyStr(py_str(normalize(wcall.data_list[1])[i]))])
    /\ (/\ wcall.fmt = "csv" /\ wcall.op = "write_single"
        /\ wcall.pre.kind = "missing") =>
           /\ wcall.exc = CSVWriter_write_single(Blank, wcall.data_list[1],
                                                 wcall.mode).exc
           /\ wcall.exc = "" =>
                 fs[1] = CSVWriter_write_single(Blank, wcall.data_list[1],
                                                wcall.mode).content

\* C29, its case: a keyed append to a file that holds no JSON
C29_KeyedAppendToGarbage ==
    /\ wcall.fmt = "json" /\ wcall.op = "write_single"
    /\ wcall.pre = Garbage /\ ~wcall.key.none /\ wcall.mode = "append"
    /\ wcall.exc = ""
    /\ fs[1].kind = "json" /\ fs[1].doc.t = "dict"

(* ------------------------- claims: the constructor -------------------- *)
\* the arguments the call was made with are in its record but for filetype
\* and key, which a successful call resolves; a failed call leaves them
BadArguments ==
    \/ ctor.mode \notin {"overwrite", "append", "extend", "update"}
    \/ ctor.filetype \notin {"json", "csv", "txt", "__autodetect__"}
    \/ ctor.filetype = "__autodetect__" /\ ctor.ext \notin {".json", ".csv", ".txt"}
    \/ \E i \in 1 .. Len(ctor.key.parts) : ctor.key.parts[i] = ""

\* C30: constructing a job with an invalid mode, an unknown or unresolvable
\* format, or a key path with an empty segment raises a validation error at
\* construction and before any I/O: no directory has been created then.
C30_ValidationBeforeIO ==
    (ctor.op # "none" /\ (BadArguments \/ ctor.exc # "")) =>
        /\ ctor.exc # ""
        /\ ctor.dir = ctor.dir0

\* C30, a failing case: an invalid mode is rejected after the parent
\* directory of the path was created
C30_DirectoryMadeThenRaised ==
    /\ ctor.op = "init" /\ ctor.mode = "replace"
    /\ ctor.exc = "ValueError"
    /\ ~ctor.dir0 /\ ctor.dir

(* ------------------------- claims: the files of a dispatch ------------ *)
\* call i has read the file and not yet written what it merged
InReadModifyWrite(i) ==
    /\ wm_calls[i].st = "running"
    /\ wm_io[i].pc \in {"open", "write"}

\* C21: within one dispatch the writes to one file are strictly sequential:
\* no two writer calls for the same path are both between their read of the
\* file and their write of it, whatever their keys.
C21_SamePathWritesSequential ==
    \A i, j \in 1 .. Len(wm_calls) :
        (i # j /\ wm_calls[i].path = wm_calls[j].path) =>
            ~(InReadModifyWrite(i) /\ InReadModifyWrite(j))

\* C21, a failing case: two dumps for one file under different keys; both
\* calls have written and write_many has returned, and the file holds the
\* payload of one of them only
C21_LostUpdate ==
    /\ Len(wm_dumps) = 2 /\ Len(wm_calls) = 2
    /\ wm_calls[1].path = wm_calls[2].path
    /\ wm_calls[1].key = Key(<<"a">>) /\ wm_calls[2].key = Key(<<"b">>)
    /\ wm_state = "returned"
    /\ fs[wm_calls[1].path].kind = "json"
    /\ Len(fs[wm_calls[1].path].doc.items) = 1

(* ------------------------- claims: the frame of a nested write -------- *)
\* the key paths of up to one segment more than the longest key
PathsInDocument == UNION {[1 .. n -> KeyNames] : n \in 1 .. MaxKeyLen + 1}

\* p is an initial part of q
IsPrefix(p, q) == Len(p) <= Len(q) /\ SubSeq(q, 1, Len(p)) = p

\* the value the document has at p is still there, unchanged, in res
Kept(doc, res, p) == Present(res, p) /\ Lookup(res, p) = Lookup(doc, p)

\* a non-strict nested write keeps every value that is neither on the key
\* path nor below the addressed slot
OffPathKept ==
    (/\ mg.op = "write_nested" /\ mg.create /\ mg.existing.t = "dict"
     /\ mg.out.exc = "") =>
        \A p \in PathsInDocument :
            (/\ Present(mg.existing, p)
             /\ ~IsPrefix(p, mg.key) /\ ~IsPrefix(mg.key, p)) =>
                Kept(mg.existing, mg.out.v, p)

\* C39: a non-strict nested write changes only the addressed slot and creates
\* only absent intermediate mappings: every value of the document outside
\* the key path, and every non-mapping value found at an intermediate
\* segment of the key path, is present and unchanged after the write.
C39_NestedWriteKeepsTheRest ==
    (/\ mg.op = "write_nested" /\ mg.create /\ mg.existing.t = "dict"
     /\ mg.out.exc = "") =>
        \A p \in PathsInDocument :
            (/\ Present(mg.existing, p)
             /\ \/ ~IsPrefix(p, mg.key) /\ ~IsPrefix(mg.key, p)
                \/ /\ IsPrefix(p, mg.key) /\ p # mg.key
                   /\ Lookup(mg.existing, p).t # "dict") =>
                Kept(mg.existing, mg.out.v, p)

\* C39, its case: the first segment of a key of two segments held an int,
\* and after the write it holds a mapping
C39_ScalarIntermediateReplaced ==
    /\ mg.op = "write_nested" /\ mg.create /\ mg.existing.t = "dict"
    /\ Len(mg.key) = 2
    /\ Present(mg.existing, <<mg.key[1]>>)
    /\ Lookup(mg.existing, <<mg.key[1]>>).t = "int"
    /\ mg.out.exc = ""
    /\ Lookup(mg.out.v, <<mg.key[1]>>).t = "dict"

(* ------------------------- claims: a failing payload of a batch ------- *)
\* the merge of payload k into the file that the payloads before it left
\* raises the error of extend/update for shapes that do not fit
MergeTypeErrorAt(k) ==
    /\ k \in 1 .. Len(wcall.data_list)
    /\ wcall.mode \in {"extend", "update"}
    /\ SinglesUpTo(k - 1).exc = ""
    /\ json_merge(read_json(SinglesUpTo(k - 1).content, wcall.key),
                  wcall.data_list[k], wcall.mode, wcall.key,
                  wcall.strict_keys) = Raise("ValueError")

\* C35: in a JSON batch p1..pN, if applying pk raises a merge-type error, the
\* batch raises it when pk is processed: the file holds p1..p(k-1) applied in
\* order, the failing write of pk leaves it as p(k-1) left it, and
\* p(k+1)..pN are never applied (the file was opened k-1 times).
C35_FailingPayloadStopsBatch ==
    \A k \in 1 .. MaxBatch :
        (/\ wcall.fmt = "json" /\ wcall.op = "write_batch"
         /\ MergeTypeErrorAt(k)) =>
            /\ wcall.exc = "ValueError"
            /\ fs[1] = SinglesUpTo(k - 1).content
            /\ wcall.opened = k - 1

\* C35, its case: the first payload extended a list, the second one, not a
\* list, failed
C35_SecondPayloadFails ==
    /\ wcall.fmt = "json" /\ wcall.op = "write_batch"
    /\ Len(wcall.data_list) = 2
    /\ MergeTypeErrorAt(2)
    /\ wcall.key.none
    /\ wcall.pre.kind = "json" /\ wcall.pre.doc.t = "list"
    /\ fs[1] # wcall.pre

\* a batch whose first payload failed although the second one fits the file
FirstFailsSecondFits ==
    /\ wcall.fmt = "json" /\ wcall.op = "write_batch"
    /\ Len(wcall.data_list) = 2
    /\ MergeTypeErrorAt(1)
    /\ JSONWriter_write_single(wcall.pre, wcall.data_list[2], wcall.mode,
                               wcall.key, wcall.strict_keys).exc = ""
    /\ JSONWriter_write_single(wcall.pre, wcall.data_list[2], wcall.mode,
                               wcall.key, wcall.strict_keys).content # wcall.pre

(* ------------------------- claims: the table round trip --------------- *)
\* the cells of a mapping row under the header of the table
CellsOf(row, header) ==
    [i \in 1 .. Len(header) |-> csv_cell(dict_getitem(row, header[i]))]

\* the rows of str cells the file holds
Grid ==
    IF fs[1].kind # "csv" THEN <<>>
    ELSE [i \in 1 .. Len(fs[1].doc.items) |->
             [j \in 1 .. Len(fs[1].doc.items[i].items) |->
                 fs[1].doc.items[i].items[j].s]]

\* C40: after an overwrite with mapping rows and any number of appends of
\* mapping rows with the same keys, the file is one header row, the keys,
\* followed by exactly the data rows written so far in submission order,
\* whatever the key names are; no header is read again as a data row.
C40_TableRoundTrip ==
    (tbl.calls >= 1 /\ tbl.exc = "") =>
        Grid = <<dict_keys(tbl.rows[1])>>
                  \o [i \in 1 .. Len(tbl.rows) |->
                         CellsOf(tbl.rows[i], dict_keys(tbl.rows[1]))]

\* the same for tables that have a column name with an alphabetic character
AlphabeticTableRoundTrip ==
    (/\ tbl.calls >= 1 /\ tbl.exc = ""
     /\ \E i \in 1 .. Len(tbl.rows[1].items) :
           tbl.rows[1].items[i].k \in AlphaStrings) =>
        Grid = <<dict_keys(tbl.rows[1])>>
                  \o [i \in 1 .. Len(tbl.rows) |->
                         CellsOf(tbl.rows[i], dict_keys(tbl.rows[1]))]

\* C40, its case: a row was appended to a table whose only column is named
\* "1", and the file holds the header twice
C40_HeaderReadAsData ==
    /\ tbl.op = "append" /\ tbl.calls = 2 /\ tbl.exc = ""
    /\ dict_keys(tbl.rows[1]) = <<"1">>
    /\ Len(tbl.rows) = 2
    /\ Len(Grid) = 4
    /\ Grid[1] = <<"1">> /\ Grid[2] = <<"1">>

(* ------------------------- claims: the jobs of one group -------------- *)
\* the first n dumps written one after the other, each by a write_single call
\* with its own mode and strict_keys, up to the first that raises
RECURSIVE EachItsOwn(_)
EachItsOwn(n) ==
    IF n = 0 THEN Outcome("", wcall.pre, 0)
    ELSE LET before == EachItsOwn(n - 1)
         IN  IF before.exc # "" THEN before
             ELSE JSONWriter_write_single(before.content, wm_dumps[n].data,
                                          wm_dumps[n].mode, wm_dumps[n].key,
                                          wm_dumps[n].strict_keys)

\* C36: write_many applies every job with its own mode and strict_keys:
\* after the dispatch of a group of jobs that share (path, filetype, key) the
\* file is as the jobs applied one after another in submission order leave
\* it, each with its own mode and strictness.
C36_EachJobItsOwnMode ==
    wm_state \in {"returned", "raised"} =>
        /\ fs[1] = EachItsOwn(Len(wm_dumps)).content
        /\ (wm_state = "raised") = (EachItsOwn(Len(wm_dumps)).exc # "")

\* the same for groups whose jobs agree in mode and strict_keys
UniformGroupIsSequential ==
    (/\ wm_state \in {"returned", "raised"}
     /\ \A i \in 1 .. Len(wm_dumps) :
           /\ wm_dumps[i].mode = wm_dumps[1].mode
           /\ wm_dumps[i].strict_keys = wm_dumps[1].strict_keys) =>
        /\ fs[1] = EachItsOwn(Len(wm_dumps)).content
        /\ (wm_state = "raised") = (EachItsOwn(Len(wm_dumps)).exc # "")

\* C36, its case: an overwrite job followed by an append job for the same
\* file and key; the file holds the second payload only
C36_OverwriteThenAppend ==
    /\ wm_state = "returned"
    /\ Len(wm_dumps) = 2 /\ wm_dumps[1].key.none
    /\ wm_dumps[1].mode = "overwrite" /\ wm_dumps[2].mode = "append"
    /\ fs[1] = JsonText(wm_dumps[2].data)
    /\ EachItsOwn(2).content
          = JsonText(PyList(Append(wm_dumps[1].data.items, wm_dumps[2].data)))

(* ------------------------- claims: appends that are rejected ---------- *)
\* the call that just ended was an append of an enabled coordinator whose
\* insert raised OverflowError: it held the lock, had created its dump, and
\* the buffer, which is still there, refused the insert
AppendOverflowed ==
    /\ done.op = "append" /\ done.st = "raised"
    /\ done.job # 0 /\ ~done.ins /\ ~done.derr
    /\ ~history.none

NoOverflowWithinTolerance ==
    AppendOverflowed => Len(history.items) > history.max_length + history.tolerance

Registered == reg.d.path_connections

KeysOwned(pc) ==
    {reg.d.pcs[pc].path}
        \cup (IF HasAlias(reg.d.pcs[pc]) THEN {reg.d.pcs[pc].alias.s} ELSE {})

IndexKeys == {k \in Names : reg.d.key_to_pc[k] # 0}

\* the keys of the index are exactly the paths and aliases of the registered
\* connections
IndexKeysAreOwned == IndexKeys = UNION {KeysOwned(pc) : pc \in Registered}

\* each key maps to the registered connection that owns it
IndexMapsToOwner ==
    \A k \in IndexKeys :
        reg.d.key_to_pc[k] \in Registered /\ k \in KeysOwned(reg.d.key_to_pc[k])

\* no two registered connections share a path or alias
NoSharedKey ==
    \A p, q \in Registered : p # q => KeysOwned(p) \cap KeysOwned(q) = {}

\* a call that raised left the registry as it was
RaisingCallKeeps == reg.exc # "" => reg.kept

\* C38: after any sequence of __setitem__, __delitem__, setalias and setpath
\* calls the key index is consistent with the registered set: its keys are
\* exactly the paths and non-empty aliases of the registered connections,
\* each key maps to the registered connection that owns it, no two
\* registered connections share a path or alias, and a call that raised
\* left the registry unchanged.
C38_IndexConsistent ==
    /\ IndexKeysAreOwned
    /\ IndexMapsToOwner
    /\ NoSharedKey
    /\ RaisingCallKeeps

\* C38, its case: a connection was registered under an alias that is the
\* path of another registered connection, and the index maps that path to
\* the newcomer
C38_AliasTakesPath ==
    /\ reg.op = "setitem" /\ reg.exc = ""
    /\ \E p, q \in Registered :
          /\ p # q
          /\ HasAlias(reg.d.pcs[q]) /\ reg.d.pcs[q].alias.s = reg.d.pcs[p].path
          /\ reg.d.key_to_pc[reg.d.pcs[p].path] = q

(* ---------------------- claims: the connections ----------------------- *)
\* the write connections _db_dict holds for a path
RegisteredConns(db_path) ==
    {mgr.write_conn[e] :
        e \in {x \in mgr.db.path_connections : mgr.db.pcs[x].path = db_path}}

\* connect() for a registered path returned the registered write connection
\* and opened none
RegisteredConnectReuses ==
    (mgr.last.op = "connect" /\ mgr.last.was # 0)
        => (mgr.last.ret = mgr.last.was /\ ~mgr.last.opened)

\* while nothing was closed, the callers of connect() for one path hold the
\* same connection
CallersShareConnection ==
    mgr.closed = {} =>
        \A t1, t2 \in Callers :
            (/\ mgr.task[t1].got # 0 /\ mgr.task[t2].got # 0
             /\ mgr.task[t1].path = mgr.task[t2].path)
                => mgr.task[t1].got = mgr.task[t2].got

OneWriteConnectionPerPath ==
    \A db_path \in Names : Cardinality(RegisteredConns(db_path)) <= 1

\* every connection that was opened is registered or closed
NoOrphanedConnection ==
    \A c \in 1 .. mgr.opened :
        c \in mgr.closed \/ \E db_path \in Names : c \in RegisteredConns(db_path)

\* C34: connect(db_path) for a registered path returns the existing write
\* connection and opens no new one; for every interleaving of connect calls
\* on one path all callers receive the same write connection, the manager
\* holds at most one write connection per path, and no opened connection is
\* left unregistered without being closed.
C34_ConnectSharesOneConnection ==
    /\ RegisteredConnectReuses
    /\ CallersShareConnection
    /\ OneWriteConnectionPerPath
    /\ NoOrphanedConnection

\* two connect() calls for one path overlapped: each caller has a connection
\* of its own, and the one registered first is neither registered nor closed
C34_SecondConnectOrphansFirst ==
    /\ mgr.closed = {}
    /\ \A t \in Callers : mgr.task[t].pc = "idle"
    /\ \E t1, t2 \in Callers, db_path \in Names :
          /\ mgr.task[t1].path = db_path /\ mgr.task[t2].path = db_path
          /\ mgr.task[t1].got = 1 /\ mgr.task[t2].got = 2
          /\ RegisteredConns(db_path) = {2}

(* ------------------------ claims: the queue --------------------------- *)
\* the tasks inside the body of queue(db_path)
Inside(db_path) ==
    {t \in Callers : mgr.task[t].holds # 0 /\ mgr.task[t].qpath = db_path}

\* C31: for a given database path at most one task is inside the
\* manager.queue(db_path) context at any time, for every interleaving of
\* queue, connect and close calls on the same manager.
C31_OneTaskInQueue == \A db_path \in Names : Cardinality(Inside(db_path)) <= 1

\* as long as close() has popped no Lock, the queue of a path is exclusive
QueueExclusiveWithoutClose == ~mgr.popped => C31_OneTaskInQueue

\* two tasks are inside queue() for one path, each holding a Lock of its own:
\* close() popped the first Lock while it was held
C31_TwoInsideAfterClose ==
    \E t1, t2 \in Callers, db_path \in Names :
        /\ t1 # t2
        /\ {t1, t2} \subseteq Inside(db_path)
        /\ mgr.task[t1].holds # mgr.task[t2].holds
        /\ mgr.popped

(* ---------------------- claims: the transactions ---------------------- *)
Exited(i) == tx.txn[i].state = "exited"

\* the statements executed through Transaction i that are in the database file
CommittedOf(i) == tx.txn[i].stmts \cap tx.committed

\* C32: if the body of a Transaction context raises, none of the statements
\* executed through that transaction before the exception are committed
\* afterwards, whatever the manager's autocommit setting and the commit flags
\* passed to execute.
C32_RaisedBodyCommitsNothing ==
    \A i \in Txns : (Exited(i) /\ tx.txn[i].raised) => CommittedOf(i) = {}

\* no other Transaction of the path has been entered
Alone(i) == \A j \in Txns \ {i} : tx.txn[j].state = "new"

\* a Transaction that is alone on its path and none of whose execute() calls
\* committed leaves nothing when its body raises
RaisedBodyRollsBackUncommitted ==
    \A i \in Txns :
        (Exited(i) /\ tx.txn[i].raised /\ Alone(i) /\ ~tx.midcommit)
            => CommittedOf(i) = {}

\* the body raised after an execute() that committed: the statement stays
C32_CommittedBeforeRaise ==
    \E i \in Txns :
        /\ Exited(i) /\ tx.txn[i].raised
        /\ tx.txn[i].succeeded = PyFalse
        /\ CommittedOf(i) # {}
        /\ tx.midcommit

\* succeeded and failed are None until __aexit__ has run
StatusNoneUntilExit ==
    \A i \in Txns :
        ~Exited(i) => (succeeded(tx.txn[i]) = NoBool /\ failed(tx.txn[i]) = NoBool)

\* after exit, succeeded is True iff the statements of the transaction were
\* committed and False iff they were rolled back
StatusTellsOutcome ==
    \A i \in Txns :
        (Exited(i) /\ tx.txn[i].stmts # {}) =>
            /\ succeeded(tx.txn[i]) = PyTrue <=> CommittedOf(i) = tx.txn[i].stmts
            /\ succeeded(tx.txn[i]) = PyFalse <=> CommittedOf(i) = {}

FailedNegatesSucceeded ==
    \A i \in Txns :
        Exited(i) =>
            /\ succeeded(tx.txn[i]) \in {PyTrue, PyFalse}
            /\ failed(tx.txn[i]) \in {PyTrue, PyFalse}
            /\ failed(tx.txn[i]) # succeeded(tx.txn[i])

\* the status of a Transaction that has exited is not changed by what is
\* done to another
StatusKept ==
    [][\A i \in Txns : Exited(i) => tx'.txn[i].succeeded = tx.txn[i].succeeded]_vars

\* C33: Transaction.succeeded and Transaction.failed are both None from
\* construction until __aexit__ has run; after exit, succeeded is True if and
\* only if the transaction's changes were committed and False if and only if
\* they were rolled back, and failed is always the negation of succeeded;
\* each Transaction object keeps its own status.
C33_StatusTellsOutcome ==
    /\ [](StatusNoneUntilExit /\ StatusTellsOutcome /\ FailedNegatesSucceeded)
    /\ StatusKept

\* a Transaction that exited with succeeded False and failed True, all of
\* whose statements are in the database file
C33_FailedButCommitted ==
    \E i \in Txns :
        /\ Exited(i)
        /\ succeeded(tx.txn[i]) = PyFalse /\ failed(tx.txn[i]) = PyTrue
        /\ tx.txn[i].stmts # {}
        /\ CommittedOf(i) = tx.txn[i].stmts

====
